---- MODULE Spec2Model ----
(***************************************************************************)
(* AWS cost-pooling servers: the tiered cost engine, the pooled-savings    *)
(* allocator and the invoice collection they read.                         *)
(*                                                                         *)
(* Two generations of the server are modelled side by side:                *)
(*   "sku" - the SKU-level server (src/unnamed/part_004):                  *)
(*           SKU_PRICING_TIERS, calculateSKUTieredCost,                    *)
(*           calculateCustomerSKUPooledCost, records keyed by skuId;       *)
(*   "svc" - the service-level server (src/api/index.js):                  *)
(*           PRICING_TIERS, calculateTieredCost, records keyed by service. *)
(*                                                                         *)
(* JavaScript numbers are modelled as exact rationals extended with NaN    *)
(* and the two infinities: [n |-> numerator, d |-> denominator], in lowest *)
(* terms with d > 0 for a finite value, d = 0 for NaN (n = 0), +Infinity   *)
(* (n = 1) and -Infinity (n = -1). Binary floating-point rounding error is *)
(* not modelled: arithmetic on finite values is exact.                     *)
(***************************************************************************)
EXTENDS Integers, Sequences, FiniteSets, TLC

VARIABLES variant, invoices, now, resp, query, result, handlers, ui

vars == <<variant, invoices, now, resp, query, result, handlers, ui>>

(***************************************************************************)
(* JavaScript number arithmetic                                            *)
(***************************************************************************)
Abs(i) == IF i < 0 THEN -i ELSE i

RECURSIVE GCD(_, _)
GCD(a, b) == IF b = 0 THEN a ELSE GCD(b, a % b)

Rat(n, d) ==
    LET g == GCD(Abs(n), d)
    IN [n |-> n \div g, d |-> d \div g]

NaN == [n |-> 0, d |-> 0]
Infinity == [n |-> 1, d |-> 0]
NegInfinity == [n |-> -1, d |-> 0]
Zero == [n |-> 0, d |-> 1]
Int2Num(i) == [n |-> i, d |-> 1]

IsNaN(x) == x.d = 0 /\ x.n = 0
IsFiniteNum(x) == x.d > 0

\* sign of a non-NaN value
Sgn(x) == IF x.n > 0 THEN 1 ELSE IF x.n < 0 THEN -1 ELSE 0

JsNeg(x) == [n |-> -x.n, d |-> x.d]

JsAdd(x, y) ==
    IF IsNaN(x) \/ IsNaN(y) THEN NaN
    ELSE IF ~IsFiniteNum(x) THEN (IF ~IsFiniteNum(y) /\ y.n # x.n THEN NaN ELSE x)
    ELSE IF ~IsFiniteNum(y) THEN y
    ELSE LET g == GCD(x.d, y.d)
         IN Rat(x.n * (y.d \div g) + y.n * (x.d \div g), (x.d \div g) * y.d)

JsSub(x, y) == JsAdd(x, JsNeg(y))

JsMul(x, y) ==
    IF IsNaN(x) \/ IsNaN(y) THEN NaN
    ELSE IF ~IsFiniteNum(x) \/ ~IsFiniteNum(y)
         THEN (IF Sgn(x) * Sgn(y) = 0 THEN NaN
               ELSE [n |-> Sgn(x) * Sgn(y), d |-> 0])
    ELSE LET g1 == GCD(Abs(x.n), y.d)
             g2 == GCD(Abs(y.n), x.d)
         IN [n |-> (x.n \div g1) * (y.n \div g2), d |-> (x.d \div g2) * (y.d \div g1)]

JsDiv(x, y) ==
    IF IsNaN(x) \/ IsNaN(y) THEN NaN
    ELSE IF ~IsFiniteNum(y) THEN (IF ~IsFiniteNum(x) THEN NaN ELSE Zero)
    ELSE IF y.n = 0 THEN (IF Sgn(x) = 0 THEN NaN ELSE [n |-> Sgn(x), d |-> 0])
    ELSE IF ~IsFiniteNum(x) THEN [n |-> Sgn(x) * Sgn(y), d |-> 0]
    ELSE JsMul(x, [n |-> Sgn(y) * y.d, d |-> Abs(y.n)])

\* x < y; every comparison with NaN is false
JsLt(x, y) ==
    IF IsNaN(x) \/ IsNaN(y) THEN FALSE
    ELSE IF ~IsFiniteNum(x) \/ ~IsFiniteNum(y)
         THEN (IF ~IsFiniteNum(x) /\ ~IsFiniteNum(y) THEN x.n < y.n
               ELSE IF ~IsFiniteNum(x) THEN x.n < 0
               ELSE y.n > 0)
    ELSE JsAdd(x, JsNeg(y)).n < 0

JsGt(x, y) == JsLt(y, x)
\* x === y
JsEq(x, y) == ~IsNaN(x) /\ ~IsNaN(y) /\ x = y
JsLe(x, y) == JsLt(x, y) \/ JsEq(x, y)
JsGe(x, y) == JsLe(y, x)

MathMax(x, y) == IF IsNaN(x) \/ IsNaN(y) THEN NaN ELSE IF JsLt(x, y) THEN y ELSE x
MathMin(x, y) == IF IsNaN(x) \/ IsNaN(y) THEN NaN ELSE IF JsLt(y, x) THEN y ELSE x

\* Math.round: the nearest integer, a tie going towards +Infinity
MathRound(x) ==
    IF ~IsFiniteNum(x) THEN x
    ELSE Int2Num((2 * x.n + x.d) \div (2 * x.d))

\* parseFloat(x.toFixed(2)): two decimals, a tie going away from zero
ToFixed2(x) ==
    IF ~IsFiniteNum(x) THEN x
    ELSE LET m == (2 * 100 * Abs(x.n) + x.d) \div (2 * x.d)
         IN Rat(Sgn(x) * m, 100)

\* (x || 0) on a number: NaN and 0 are falsy
OrZero(x) == IF IsNaN(x) \/ x = Zero THEN Zero ELSE x

\* a price in units of 1e-7 dollar, an amount in cents
Price(p) == Rat(p, 10000000)
Dollars(cents) == Rat(cents, 100)

(***************************************************************************)
(* Pricing catalogs                                                        *)
(***************************************************************************)
Tier(lo, hi, price) == [minUsage |-> lo, maxUsage |-> hi, pricePerUnit |-> Price(price)]
T(lo, hi, price) == Tier(Int2Num(lo), Int2Num(hi), price)
TInf(lo, price) == Tier(Int2Num(lo), Infinity, price)

\* the SKU-level catalog; prices in 1e-7 dollar
SKU_PRICING_TIERS ==
    [sku \in {"EC2-t3.micro-us-east-1", "EC2-t3.small-us-east-1", "EC2-t3.medium-us-east-1",
              "S3-Standard-us-east-1", "S3-IA-us-east-1", "S3-Glacier-us-east-1",
              "RDS-db.t3.micro-us-east-1", "RDS-db.t3.small-us-east-1",
              "DataTransfer-InternetEgress-us-east-1", "CloudFront-DataTransfer-us-east-1",
              "SES-EmailSending-us-east-1", "SNS-Requests-us-east-1"} |->
       CASE sku = "EC2-t3.micro-us-east-1" ->
              <<T(0, 750, 0), T(750, 8760, 104000), T(8760, 87600, 94000), TInf(87600, 84000)>>
         [] sku = "EC2-t3.small-us-east-1" ->
              <<T(0, 8760, 208000), T(8760, 87600, 188000), TInf(87600, 168000)>>
         [] sku = "EC2-t3.medium-us-east-1" ->
              <<T(0, 8760, 416000), T(8760, 87600, 376000), TInf(87600, 336000)>>
         [] sku = "S3-Standard-us-east-1" ->
              <<T(0, 50000, 230000), T(50000, 450000, 220000), TInf(450000, 210000)>>
         [] sku = "S3-IA-us-east-1" -> <<TInf(0, 125000)>>
         [] sku = "S3-Glacier-us-east-1" -> <<TInf(0, 40000)>>
         [] sku = "RDS-db.t3.micro-us-east-1" ->
              <<T(0, 750, 0), T(750, 8760, 170000), T(8760, 87600, 150000), TInf(87600, 130000)>>
         [] sku = "RDS-db.t3.small-us-east-1" ->
              <<T(0, 8760, 340000), T(8760, 87600, 310000), TInf(87600, 280000)>>
         [] sku = "DataTransfer-InternetEgress-us-east-1" ->
              <<T(0, 1, 0), T(1, 10000, 900000), T(10000, 50000, 850000),
                T(50000, 150000, 700000), TInf(150000, 500000)>>
         [] sku = "CloudFront-DataTransfer-us-east-1" ->
              <<T(0, 10000, 850000), T(10000, 50000, 800000),
                T(50000, 150000, 600000), TInf(150000, 400000)>>
         [] sku = "SES-EmailSending-us-east-1" -> <<T(0, 62000, 0), TInf(62000, 1000)>>
         [] sku = "SNS-Requests-us-east-1" -> <<T(0, 1000000, 0), TInf(1000000, 5)>>]

\* the service-level catalog; prices in 1e-7 dollar
PRICING_TIERS ==
    [service \in {"EC2", "S3", "RDS", "CloudFront", "DataTransfer", "Lambda"} |->
       CASE service = "EC2" ->
              <<T(0, 744, 464000), T(745, 8760, 418000), TInf(8761, 372000)>>
         [] service = "S3" ->
              <<T(0, 50000, 230000), T(50001, 450000, 220000), TInf(450001, 210000)>>
         [] service = "RDS" ->
              <<T(0, 750, 170000), T(751, 8760, 170000), TInf(8761, 150000)>>
         [] service = "CloudFront" ->
              <<T(0, 10000, 850000), T(10001, 50000, 800000), TInf(50001, 600000)>>
         [] service = "DataTransfer" ->
              <<T(0, 1000, 900000), T(1001, 10000, 900000), TInf(10001, 850000)>>
         [] service = "Lambda" -> <<T(0, 1000000, 2), TInf(1000001, 2)>>]

(***************************************************************************)
(* Tiered cost engines                                                     *)
(***************************************************************************)
\* the tier loop of calculateSKUTieredCost from tier i on; the loop's final state
RECURSIVE SKUTierLoop(_, _, _, _, _)
SKUTierLoop(tiers, totalUsage, i, cost, usageProcessed) ==
    IF i > Len(tiers) THEN [cost |-> cost, usageProcessed |-> usageProcessed]
    ELSE LET tier == tiers[i]
             tierStart == tier.minUsage
             tierEnd == IF JsEq(tier.maxUsage, Infinity) THEN totalUsage
                        ELSE MathMin(tier.maxUsage, totalUsage)
         IN IF JsLe(totalUsage, tierStart)
            THEN [cost |-> cost, usageProcessed |-> usageProcessed]
            ELSE LET usageInThisTier == JsSub(tierEnd, MathMax(tierStart, usageProcessed))
                     taken == JsGt(usageInThisTier, Zero)
                     cost2 == IF taken
                              THEN JsAdd(cost, JsMul(usageInThisTier, tier.pricePerUnit))
                              ELSE cost
                     processed2 == IF taken THEN JsAdd(usageProcessed, usageInThisTier)
                                   ELSE usageProcessed
                 IN IF JsGe(tierEnd, totalUsage)
                    THEN [cost |-> cost2, usageProcessed |-> processed2]
                    ELSE SKUTierLoop(tiers, totalUsage, i + 1, cost2, processed2)

\* volume pricing: the whole usage at the price of the tier it reaches
SKUVolumeCostOver(tiers, totalUsage) ==
    LET reached == {i \in 1..Len(tiers) : JsLt(tiers[i].minUsage, totalUsage)}
        top == CHOOSE i \in reached : \A j \in reached : j <= i
    IN IF reached = {} THEN [cost |-> Zero, usageProcessed |-> Zero]
       ELSE [cost |-> JsMul(totalUsage, tiers[top].pricePerUnit),
             usageProcessed |-> totalUsage]

SKUTieredCostOver(tiers, totalUsage) == SKUTierLoop(tiers, totalUsage, 1, Zero, Zero)

\* no fallback for a skuId the catalog does not list
calculateSKUTieredCostListedOnly(skuId, totalUsage) ==
    IF skuId \notin DOMAIN SKU_PRICING_TIERS
    THEN NaN
    ELSE SKUTieredCostOver(SKU_PRICING_TIERS[skuId], totalUsage).cost

calculateSKUTieredCost(skuId, totalUsage) ==
    IF skuId \notin DOMAIN SKU_PRICING_TIERS
    THEN JsMul(totalUsage, Price(100000))
    ELSE SKUTieredCostOver(SKU_PRICING_TIERS[skuId], totalUsage).cost

\* the tier loop of calculateTieredCost from tier i on; the loop's final state
RECURSIVE TierLoop(_, _, _, _)
TierLoop(tiers, i, cost, remainingUsage) ==
    IF i > Len(tiers) THEN [cost |-> cost, remainingUsage |-> remainingUsage]
    ELSE IF JsLe(remainingUsage, Zero) THEN [cost |-> cost, remainingUsage |-> remainingUsage]
    ELSE LET tier == tiers[i]
             tierCapacity == IF JsEq(tier.maxUsage, Infinity) THEN remainingUsage
                             ELSE JsAdd(JsSub(tier.maxUsage, tier.minUsage), Int2Num(1))
             tierUsage == MathMin(remainingUsage, tierCapacity)
         IN TierLoop(tiers, i + 1, JsAdd(cost, JsMul(tierUsage, tier.pricePerUnit)),
                     JsSub(remainingUsage, tierUsage))

TieredCostOver(tiers, usage) == TierLoop(tiers, 1, Zero, usage)

\* every unit at the price of the last tier the usage reaches
calculateTieredCostAtLastTier(service, usage) ==
    LET tiers == IF service \in DOMAIN PRICING_TIERS THEN PRICING_TIERS[service]
                 ELSE PRICING_TIERS["EC2"]
        reached == {i \in 1..Len(tiers) : JsLe(tiers[i].minUsage, usage)}
        top == CHOOSE i \in reached : \A j \in reached : j <= i
    IN IF reached = {} \/ JsLe(usage, Zero) THEN Zero
       ELSE JsMul(usage, tiers[top].pricePerUnit)

calculateTieredCost(service, usage) ==
    LET tiers == IF service \in DOMAIN PRICING_TIERS THEN PRICING_TIERS[service]
                 ELSE PRICING_TIERS["EC2"]
    IN TieredCostOver(tiers, usage).cost

(***************************************************************************)
(* The cost engines as pure functions: bounded inputs                      *)
(***************************************************************************)
\* how far around each tier boundary the usages are drawn
BoundarySpread == 1
\* the longest generated tier table
MaxTiers == 3

\* a skuId / service that the catalogs do not list
UnknownSKU == "EC2-m5.large-us-east-1"
UnknownService == "SES"

BreakPoints == {1, 744, 8760}
PricePoints == {0, 418000, 464000}

\* every ascending, contiguous tier table over BreakPoints that ends at +Infinity
RECURSIVE TablesFrom(_, _)
TablesFrom(lo, n) ==
    {<<TInf(lo, p)>> : p \in PricePoints}
    \cup (IF n <= 1 THEN {}
          ELSE UNION {{<<T(lo, b, p)>> \o rest : rest \in TablesFrom(b, n - 1)} :
                      <<b, p>> \in {b \in BreakPoints : b > lo} \X PricePoints})

ContiguousTables == TablesFrom(0, MaxTiers)

CatalogTables == {SKU_PRICING_TIERS[k] : k \in DOMAIN SKU_PRICING_TIERS}

\* the finite tier boundaries of a table
Boundaries(tiers) ==
    {tiers[i].minUsage.n : i \in 1..Len(tiers)}
    \cup {tiers[i].maxUsage.n : i \in {j \in 1..Len(tiers) : IsFiniteNum(tiers[j].maxUsage)}}

\* usages around every boundary of the table, two mid-tier values,
\* a negative total and a non-numeric one
UsagesFor(tiers) ==
    {Int2Num(b + k) : <<b, k>> \in Boundaries(tiers) \X (-BoundarySpread..BoundarySpread)}
    \cup {Int2Num(1000), Int2Num(1500), Int2Num(-100), Rat(1, 2), NaN}

NoQuery == [op |-> "none"]
NoResult == [cost |-> Zero]

\* one evaluation per behaviour: the inputs are drawn, the function applied
CostOfSKU ==
    /\ query = NoQuery
    /\ \E skuId \in DOMAIN SKU_PRICING_TIERS \cup {UnknownSKU} :
      \E u \in UsagesFor(IF skuId = UnknownSKU THEN <<TInf(0, 100000)>>
                         ELSE SKU_PRICING_TIERS[skuId]) :
        /\ query' = [op |-> "calculateSKUTieredCost", key |-> skuId, usage |-> u]
        /\ result' = [cost |-> calculateSKUTieredCost(skuId, u)]
        /\ UNCHANGED <<variant, invoices, now, resp, handlers, ui>>

CostOfService ==
    /\ query = NoQuery
    /\ \E service \in DOMAIN PRICING_TIERS \cup {UnknownService} :
      \E u \in UsagesFor(IF service = UnknownService THEN PRICING_TIERS["EC2"]
                         ELSE PRICING_TIERS[service]) :
        /\ query' = [op |-> "calculateTieredCost", key |-> service, usage |-> u]
        /\ result' = [cost |-> calculateTieredCost(service, u)]
        /\ UNCHANGED <<variant, invoices, now, resp, handlers, ui>>

\* the SKU-level tier loop run over a tier table
CostOverTable ==
    /\ query = NoQuery
    /\ \E tiers \in ContiguousTables \cup CatalogTables :
      \E u \in UsagesFor(tiers) :
        /\ query' = [op |-> "SKUTieredCostOver", tiers |-> tiers, usage |-> u]
        /\ result' = SKUTieredCostOver(tiers, u)
        /\ UNCHANGED <<variant, invoices, now, resp, handlers, ui>>

(***************************************************************************)
(* Invoice extraction of the SKU-level server                              *)
(*                                                                         *)
(* Invoice text is a sequence of lines, a line a sequence of tokens: a     *)
(* service name, a "$" amount, or any other word. A service pattern (the   *)
(* name, a lazy wildcard, a "$" amount; global, case-insensitive) matches  *)
(* a name token and the first amount token after it on the same line, and  *)
(* the next search resumes after that amount.                              *)
(***************************************************************************)
Svc(name) == [k |-> "svc", name |-> name]
Amt(cents) == [k |-> "amt", v |-> Dollars(cents)]
Word == [k |-> "word"]

\* positions of the first token from i on satisfying the test, 0 if none
RECURSIVE FirstSvc(_, _, _)
FirstSvc(line, name, i) ==
    IF i > Len(line) THEN 0
    ELSE IF line[i].k = "svc" /\ line[i].name = name THEN i
    ELSE FirstSvc(line, name, i + 1)

RECURSIVE FirstAmt(_, _)
FirstAmt(line, i) ==
    IF i > Len(line) THEN 0
    ELSE IF line[i].k = "amt" THEN i
    ELSE FirstAmt(line, i + 1)

\* pattern.exec until null on one line: the captured amounts, in order
RECURSIVE LineMatches(_, _, _)
LineMatches(line, name, i) ==
    LET j == FirstSvc(line, name, i)
        a == IF j = 0 THEN 0 ELSE FirstAmt(line, j + 1)
    IN IF a = 0 THEN <<>>
       ELSE <<line[a].v>> \o LineMatches(line, name, a + 1)

RECURSIVE TextMatches(_, _, _)
TextMatches(text, name, l) ==
    IF l > Len(text) THEN <<>>
    ELSE LineMatches(text[l], name, 1) \o TextMatches(text, name, l + 1)

servicePatterns ==
    << [name |-> "Amazon Simple Storage Service", service |-> "S3"],
       [name |-> "AWS Data Transfer", service |-> "DataTransfer"],
       [name |-> "Amazon RDS Service", service |-> "RDS"],
       [name |-> "Amazon CloudFront", service |-> "CloudFront"],
       [name |-> "Amazon Simple Email Service", service |-> "SES"],
       [name |-> "Amazon Elastic Compute Cloud", service |-> "EC2"],
       [name |-> "Amazon Simple Notification Service", service |-> "SNS"] >>

\* the cost bands with their limits on the cheaper side
getSKUInclusive(service, cost) ==
    CASE service = "S3" -> "S3-Standard-us-east-1"
      [] service = "DataTransfer" -> "DataTransfer-InternetEgress-us-east-1"
      [] service = "RDS" -> IF JsLe(cost, Int2Num(30)) THEN "RDS-db.t3.micro-us-east-1"
                            ELSE "RDS-db.t3.small-us-east-1"
      [] service = "CloudFront" -> "CloudFront-DataTransfer-us-east-1"
      [] service = "SES" -> "SES-EmailSending-us-east-1"
      [] service = "EC2" -> IF JsLe(cost, Int2Num(10)) THEN "EC2-t3.micro-us-east-1"
                            ELSE IF JsLe(cost, Int2Num(50)) THEN "EC2-t3.small-us-east-1"
                            ELSE "EC2-t3.medium-us-east-1"
      [] service = "SNS" -> "SNS-Requests-us-east-1"

getSKU(service, cost) ==
    CASE service = "S3" -> "S3-Standard-us-east-1"
      [] service = "DataTransfer" -> "DataTransfer-InternetEgress-us-east-1"
      [] service = "RDS" -> IF JsLt(cost, Int2Num(30)) THEN "RDS-db.t3.micro-us-east-1"
                            ELSE "RDS-db.t3.small-us-east-1"
      [] service = "CloudFront" -> "CloudFront-DataTransfer-us-east-1"
      [] service = "SES" -> "SES-EmailSending-us-east-1"
      [] service = "EC2" -> IF JsLt(cost, Int2Num(10)) THEN "EC2-t3.micro-us-east-1"
                            ELSE IF JsLt(cost, Int2Num(50)) THEN "EC2-t3.small-us-east-1"
                            ELSE "EC2-t3.medium-us-east-1"
      [] service = "SNS" -> "SNS-Requests-us-east-1"

getUsage(service, cost, skuId) ==
    CASE service = "S3" -> MathRound(JsMul(JsDiv(cost, Price(230000)), Int2Num(1000)))
      [] service = "DataTransfer" -> MathRound(JsMul(JsDiv(cost, Price(900000)), Int2Num(1000)))
      [] service = "RDS" -> IF skuId = "RDS-db.t3.micro-us-east-1"
                            THEN MathRound(JsDiv(cost, Price(170000)))
                            ELSE MathRound(JsDiv(cost, Price(340000)))
      [] service = "CloudFront" -> MathRound(JsMul(JsDiv(cost, Price(850000)), Int2Num(1000)))
      [] service = "SES" -> MathRound(JsDiv(cost, Price(1000)))
      [] service = "EC2" -> IF skuId = "EC2-t3.micro-us-east-1"
                            THEN MathRound(JsDiv(cost, Price(104000)))
                            ELSE IF skuId = "EC2-t3.small-us-east-1"
                            THEN MathRound(JsDiv(cost, Price(208000)))
                            ELSE MathRound(JsDiv(cost, Price(416000)))
      [] service = "SNS" -> MathRound(JsDiv(cost, Price(5)))

\* the records one pattern pushes for its matches with cost > 0
RECURSIVE PatternItems(_, _, _)
PatternItems(pat, costs, i) ==
    IF i > Len(costs) THEN <<>>
    ELSE LET cost == costs[i]
             skuId == getSKU(pat.service, cost)
         IN (IF JsGt(cost, Zero)
             THEN <<[skuId |-> skuId, service |-> pat.service,
                     usage |-> getUsage(pat.service, cost, skuId), totalCost |-> cost]>>
             ELSE <<>>) \o PatternItems(pat, costs, i + 1)

RECURSIVE AllPatternItems(_, _)
AllPatternItems(text, p) ==
    IF p > Len(servicePatterns) THEN <<>>
    ELSE PatternItems(servicePatterns[p], TextMatches(text, servicePatterns[p].name, 1), 1)
         \o AllPatternItems(text, p + 1)

\* items.reduce((sum, item) => sum + item.totalCost, 0)
RECURSIVE SumTotalCost(_, _)
SumTotalCost(items, i) ==
    IF i > Len(items) THEN Zero
    ELSE JsAdd(items[i].totalCost, SumTotalCost(items, i + 1))

\* id: `sku-${Date.now()}-${skuItems.length}` at each push, Date.now() = t
WithPushIds(items, t) ==
    [i \in 1..Len(items) |-> [id |-> <<"sku", t, i - 1>>] @@ items[i]]

fallbackSKUParsing(text, t) ==
    LET skuItems == WithPushIds(AllPatternItems(text, 1), t)
    IN [skus |-> skuItems, totalCost |-> SumTotalCost(skuItems, 1)]

(***************************************************************************)
(* The generative-AI path of the SKU-level server. The service's reply is  *)
(* an input: either no usable reply (the call throws, the reply is not     *)
(* JSON or has no "skus" array) or a parsed object. A JSON field is a      *)
(* number, absent, or a non-numeric string.                                *)
(***************************************************************************)
JNum(x) == [t |-> "number", v |-> x]
JUndefined == [t |-> "undefined"]
JString == [t |-> "string"]
GeminiError == [ok |-> FALSE]

\* Math.round(field || 0)
RoundOrZero(field) ==
    CASE field.t = "number" -> MathRound(OrZero(field.v))
      [] field.t = "undefined" -> Zero
      [] field.t = "string" -> NaN

\* parseFloat(field || 0)
ParseFloatOrZero(field) ==
    CASE field.t = "number" -> OrZero(field.v)
      [] field.t = "undefined" -> Zero
      [] field.t = "string" -> NaN

\* parsedData.skus.map(...).filter(item => item.totalCost > 0)
RECURSIVE GeminiItems(_, _, _)
GeminiItems(skus, i, t) ==
    IF i > Len(skus) THEN <<>>
    ELSE LET sku == skus[i]
             item == [id |-> <<"sku", t, i - 1>>,
                      skuId |-> sku.skuId, service |-> sku.service,
                      usage |-> RoundOrZero(sku.estimatedUsage),
                      totalCost |-> ParseFloatOrZero(sku.cost)]
         IN (IF JsGt(item.totalCost, Zero) THEN <<item>> ELSE <<>>)
            \o GeminiItems(skus, i + 1, t)

parseAWSInvoiceWithGemini(reply, text, t) ==
    IF ~reply.ok THEN fallbackSKUParsing(text, t)
    ELSE LET skuItems == GeminiItems(reply.skus, 1, t)
             stated == IF reply.totalCost.t = "number" THEN reply.totalCost.v ELSE Zero
         IN [skus |-> skuItems,
             totalCost |-> IF stated = Zero THEN SumTotalCost(skuItems, 1) ELSE stated]

(***************************************************************************)
(* Invoice extraction of the service-level server: the records of the      *)
(* three strategies are merged in order, deduplicated and totalled.        *)
(*                                                                         *)
(* An uploaded PDF has one page; it is a sequence of rows (the text        *)
(* fragments that share a y position, from the top of the page down), a    *)
(* row a sequence of tokens: a full service name, a bare number, a "$"     *)
(* amount, or a five-letter word that holds no service name. fullText is   *)
(* the page's fragments joined by spaces, hence one line. In the texts     *)
(* drawn, two service names are always separated by a number or an         *)
(* amount, so a run of letters holds at most one service name.             *)
(***************************************************************************)
\* the (service, totalCost) key of a record was seen before position i
SeenBefore(items, i) ==
    \E j \in 1..(i - 1) :
        items[j].service = items[i].service /\ items[j].totalCost = items[i].totalCost

RECURSIVE DedupFrom(_, _)
DedupFrom(items, i) ==
    IF i > Len(items) THEN <<>>
    ELSE (IF SeenBefore(items, i) THEN <<>> ELSE <<items[i]>>) \o DedupFrom(items, i + 1)

\* the (service, totalCost) key of a record is seen again after position i
SeenAfter(items, i) ==
    \E j \in (i + 1)..Len(items) :
        items[j].service = items[i].service /\ items[j].totalCost = items[i].totalCost

RECURSIVE DedupLastFrom(_, _)
DedupLastFrom(items, i) ==
    IF i > Len(items) THEN <<>>
    ELSE (IF SeenAfter(items, i) THEN <<>> ELSE <<items[i]>>) \o DedupLastFrom(items, i + 1)

\* the last record of every key is kept
removeEarlierDuplicates(items) == DedupLastFrom(items, 1)

\* no filter: every item is kept
keepAllItems(items) == items

removeDuplicateItems(items) == DedupFrom(items, 1)

\* Math.round(estimations[service] || cost * 10)
estimateUsageFromCost(service, cost) ==
    LET est == CASE service = "EC2" -> JsDiv(cost, Price(464000))
                 [] service = "S3" -> JsMul(JsDiv(cost, Price(230000)), Int2Num(1000))
                 [] service = "RDS" -> JsDiv(cost, Price(170000))
                 [] service = "CloudFront" -> JsMul(JsDiv(cost, Price(850000)), Int2Num(1000))
                 [] service = "DataTransfer" -> JsMul(JsDiv(cost, Price(900000)), Int2Num(1000))
                 [] service = "Lambda" -> JsDiv(cost, Price(2))
                 [] OTHER -> Zero
    IN MathRound(IF IsNaN(est) \/ est = Zero THEN JsMul(cost, Int2Num(10)) ELSE est)

Num(v) == [k |-> "num", v |-> Int2Num(v)]
IsLetters(tok) == tok.k \in {"svc", "word"}
IsNumeric(tok) == tok.k \in {"num", "amt"}

AWS_SERVICE_MAPPINGS ==
    << [name |-> "Amazon Elastic Compute Cloud", service |-> "EC2"],
       [name |-> "Amazon Simple Storage Service", service |-> "S3"],
       [name |-> "AWS Data Transfer", service |-> "DataTransfer"],
       [name |-> "Amazon Relational Database Service", service |-> "RDS"],
       [name |-> "Amazon RDS Service", service |-> "RDS"],
       [name |-> "Amazon CloudFront", service |-> "CloudFront"],
       [name |-> "AWS Lambda", service |-> "Lambda"],
       [name |-> "Amazon Simple Email Service", service |-> "SES"],
       [name |-> "Amazon Simple Notification Service", service |-> "SNS"] >>

\* name.toLowerCase().includes(service.toLowerCase()) over the nine full names
ContainsKey(name, service) ==
    \/ name = "Amazon RDS Service" /\ service = "RDS"
    \/ name = "Amazon CloudFront" /\ service = "CloudFront"
    \/ name = "AWS Lambda" /\ service = "Lambda"

\* the full names that (Amazon|AWS)\s+[A-Za-z\s]+(Service|Cloud|Transfer) matches
EndsLikeService(name) ==
    name \in {"Amazon Elastic Compute Cloud", "Amazon Simple Storage Service",
              "AWS Data Transfer", "Amazon Relational Database Service",
              "Amazon RDS Service", "Amazon Simple Email Service",
              "Amazon Simple Notification Service"}

\* the number of characters of a token
TokenWidth(tok) ==
    IF tok.k = "word" THEN 5
    ELSE CASE tok.name = "Amazon Elastic Compute Cloud" -> 28
           [] tok.name = "Amazon Simple Storage Service" -> 29
           [] tok.name = "AWS Data Transfer" -> 17
           [] tok.name = "Amazon Relational Database Service" -> 34
           [] tok.name = "Amazon RDS Service" -> 18
           [] tok.name = "Amazon CloudFront" -> 17
           [] tok.name = "AWS Lambda" -> 10
           [] tok.name = "Amazon Simple Email Service" -> 27
           [] tok.name = "Amazon Simple Notification Service" -> 34

\* content.items.map(item => item.str).join(' ') of the page
RECURSIVE FullTextOf(_, _)
FullTextOf(rows, i) ==
    IF i > Len(rows) THEN <<>> ELSE rows[i] \o FullTextOf(rows, i + 1)

\* a captured service name: the full name found in it ("" if none) and whether
\* the capture starts after the name's Amazon/AWS prefix
Captured(name, stripped) == [name |-> name, stripped |-> stripped]

\* the service of the first mapping whose full name or service key the captured
\* name includes, "" for null
mapServiceName(serviceName) ==
    LET hits == {m \in 1..Len(AWS_SERVICE_MAPPINGS) :
                   \/ ~serviceName.stripped /\ serviceName.name = AWS_SERVICE_MAPPINGS[m].name
                   \/ ContainsKey(serviceName.name, AWS_SERVICE_MAPPINGS[m].service)}
    IN IF hits = {} THEN ""
       ELSE AWS_SERVICE_MAPPINGS[CHOOSE m \in hits : \A h \in hits : m <= h].service

\* the first token from i on that a service pattern can start at, 0 if none
RECURSIVE FirstServiceName(_, _)
FirstServiceName(line, i) ==
    IF i > Len(line) THEN 0
    ELSE IF line[i].k = "svc" /\ EndsLikeService(line[i].name) THEN i
    ELSE FirstServiceName(line, i + 1)

RECURSIVE FirstNumeric(_, _)
FirstNumeric(line, i) ==
    IF i > Len(line) THEN 0
    ELSE IF IsNumeric(line[i]) THEN i
    ELSE FirstNumeric(line, i + 1)

\* pattern 1, service name followed by cost: the matches from token i on
RECURSIVE NameThenCost(_, _)
NameThenCost(line, i) ==
    LET j == FirstServiceName(line, i)
        a == IF j = 0 THEN 0 ELSE FirstAmt(line, j + 1)
    IN IF a = 0 THEN <<>>
       ELSE <<[serviceName |-> Captured(line[j].name, TRUE), usage |-> Zero,
               cost |-> line[a].v]>> \o NameThenCost(line, a + 1)

\* pattern 2, service line with usage and cost: the number is the first numeric
\* text after the name, the cost the first amount after that number
RECURSIVE NameUsageCost(_, _)
NameUsageCost(line, i) ==
    LET j == FirstServiceName(line, i)
        n == IF j = 0 THEN 0 ELSE FirstNumeric(line, j + 1)
        a == IF n = 0 THEN 0 ELSE FirstAmt(line, n + 1)
    IN IF a = 0 THEN <<>>
       ELSE <<[serviceName |-> Captured(line[j].name, FALSE), usage |-> line[n].v,
               cost |-> line[a].v]>> \o NameUsageCost(line, a + 1)

RECURSIVE LettersWidth(_, _)
LettersWidth(line, i) ==
    IF i > Len(line) - 1 THEN 0
    ELSE TokenWidth(line[i]) + (IF i > 1 THEN 1 ELSE 0) + LettersWidth(line, i + 1)

\* pattern 3, simple service and cost: the line is 10 to 50 letters and one amount
SimpleServiceCost(line) ==
    IF /\ Len(line) >= 2
       /\ line[Len(line)].k = "amt"
       /\ \A i \in 1..(Len(line) - 1) : IsLetters(line[i])
       /\ LettersWidth(line, 1) >= 10
       /\ LettersWidth(line, 1) <= 50
    THEN LET names == {i \in 1..(Len(line) - 1) : line[i].k = "svc"}
         IN <<[serviceName |-> Captured(IF names = {} THEN ""
                                        ELSE line[CHOOSE i \in names : TRUE].name, FALSE),
               usage |-> Zero, cost |-> line[Len(line)].v]>>
    ELSE <<>>

\* the items pushed for the matches from position i on; items holds those pushed so far
RECURSIVE ChargeItems(_, _, _, _)
ChargeItems(matches, i, items, t) ==
    IF i > Len(matches) THEN items
    ELSE LET match == matches[i]
             mappedService == mapServiceName(match.serviceName)
         IN ChargeItems(matches, i + 1,
               IF JsGt(match.cost, Zero) /\ mappedService # ""
               THEN Append(items,
                      [id |-> <<"item", t, Len(items)>>,
                       service |-> mappedService,
                       usage |-> IF OrZero(match.usage) = Zero
                                 THEN estimateUsageFromCost(mappedService, match.cost)
                                 ELSE match.usage,
                       totalCost |-> match.cost])
               ELSE items, t)

\* strategy 1 at Date.now() = t
extractServiceCharges(text, t) ==
    ChargeItems(NameThenCost(text, 1) \o NameUsageCost(text, 1) \o SimpleServiceCost(text),
                1, <<>>, t)

\* the line names the mapping: by its full name or by its service key
LineNames(line, mapping) ==
    \E i \in 1..Len(line) :
        /\ line[i].k = "svc"
        /\ line[i].name = mapping.name \/ ContainsKey(line[i].name, mapping.service)

\* the items one line adds, mapping after mapping from m on: the first amount
\* of the line, if it is > 0
RECURSIVE LineItems(_, _, _, _)
LineItems(line, m, items, t) ==
    IF m > Len(AWS_SERVICE_MAPPINGS) THEN items
    ELSE LET mapping == AWS_SERVICE_MAPPINGS[m]
             a == FirstAmt(line, 1)
         IN LineItems(line, m + 1,
               IF LineNames(line, mapping) /\ a # 0 /\ JsGt(line[a].v, Zero)
               THEN Append(items,
                      [id |-> <<"item", t, Len(items)>>,
                       service |-> mapping.service,
                       usage |-> estimateUsageFromCost(mapping.service, line[a].v),
                       totalCost |-> line[a].v])
               ELSE items, t)

\* strategy 2 at Date.now() = t: the text is one line, dropped if empty
parseLineByLine(text, t) ==
    IF Len(text) = 0 THEN <<>> ELSE LineItems(text, 1, <<>>, t)

RECURSIVE RowItems(_, _, _, _)
RowItems(rows, r, items, t) ==
    IF r > Len(rows) THEN items
    ELSE RowItems(rows, r + 1, LineItems(rows[r], 1, items, t), t)

\* strategy 3 at Date.now() = t
parseByPosition(textItems, t) == RowItems(textItems, 1, <<>>, t)

\* the merge with the line scan ahead of the tagged-service strategy
parseInvoiceTextLinesFirst(fullText, textItems, t) ==
    LET serviceCharges == extractServiceCharges(fullText, t)
        lineItems == parseLineByLine(fullText, t)
        positionItems == IF Len(textItems) > 0 THEN parseByPosition(textItems, t) ELSE <<>>
        uniqueItems == removeDuplicateItems(lineItems \o serviceCharges \o positionItems)
    IN IF Len(uniqueItems) = 0 THEN [ok |-> FALSE]
       ELSE [ok |-> TRUE, items |-> uniqueItems, totalCost |-> SumTotalCost(uniqueItems, 1)]

\* parseInvoiceText at Date.now() = t; ok = FALSE when it throws
parseInvoiceText(fullText, textItems, t) ==
    LET serviceCharges == extractServiceCharges(fullText, t)
        lineItems == parseLineByLine(fullText, t)
        positionItems == IF Len(textItems) > 0 THEN parseByPosition(textItems, t) ELSE <<>>
        items == serviceCharges \o lineItems \o positionItems
        uniqueItems == removeDuplicateItems(items)
    IN IF Len(uniqueItems) = 0 THEN [ok |-> FALSE]
       ELSE [ok |-> TRUE, items |-> uniqueItems, totalCost |-> SumTotalCost(uniqueItems, 1)]

\* parseAWSInvoicePDF: the page's text and its positioned fragments
parseAWSInvoicePDF(rows, t) == parseInvoiceText(FullTextOf(rows, 1), rows, t)

(***************************************************************************)
(* The earlier service-level extraction (part_002): six patterns, each a   *)
(* name, a lazy wildcard and a "$" amount, then one fallback on the first  *)
(* "$" amount of the text.                                                 *)
(***************************************************************************)
\* servicePatterns with serviceTypes: the name tokens each pattern matches
serviceTypePatterns ==
    << [names |-> {"Amazon EC2"}, service |-> "EC2"],
       [names |-> {"Amazon S3"}, service |-> "S3"],
       [names |-> {"Amazon RDS", "Amazon RDS Service"}, service |-> "RDS"],
       [names |-> {"Amazon CloudFront"}, service |-> "CloudFront"],
       [names |-> {"AWS Data Transfer"}, service |-> "DataTransfer"],
       [names |-> {"AWS Lambda"}, service |-> "Lambda"] >>

RECURSIVE FirstNamed(_, _, _)
FirstNamed(line, names, i) ==
    IF i > Len(line) THEN 0
    ELSE IF line[i].k = "svc" /\ line[i].name \in names THEN i
    ELSE FirstNamed(line, names, i + 1)

\* while ((match = pattern.exec(fullText)) !== null) for pattern p, from token i
RECURSIVE PatternPushes(_, _, _, _, _)
PatternPushes(line, p, i, items, t) ==
    LET j == FirstNamed(line, serviceTypePatterns[p].names, i)
        a == IF j = 0 THEN 0 ELSE FirstAmt(line, j + 1)
        service == serviceTypePatterns[p].service
    IN IF a = 0 THEN items
       ELSE PatternPushes(line, p, a + 1,
              IF JsGt(line[a].v, Zero)
              THEN Append(items,
                     [id |-> <<"item", t, Len(items)>>,
                      service |-> service,
                      usage |-> estimateUsageFromCost(service, line[a].v),
                      totalCost |-> line[a].v])
              ELSE items, t)

\* servicePatterns.forEach
RECURSIVE AllPatternPushes(_, _, _, _)
AllPatternPushes(line, p, items, t) ==
    IF p > Len(serviceTypePatterns) THEN items
    ELSE AllPatternPushes(line, p + 1, PatternPushes(line, p, 1, items, t), t)

\* the record the fallback pushes for the first "$" amount, if it is > 0
FallbackItems(fullText, t) ==
    LET a == FirstAmt(fullText, 1)
    IN IF a # 0 /\ JsGt(fullText[a].v, Zero)
       THEN << [id |-> <<"item", t>>,
                service |-> "EC2",
                usage |-> estimateUsageFromCost("EC2", fullText[a].v),
                totalCost |-> fullText[a].v] >>
       ELSE <<>>

\* the fallback run whatever the patterns gave
parseInvoiceTextAlwaysFallback(fullText, t) ==
    LET items == AllPatternPushes(fullText, 1, <<>>, t) \o FallbackItems(fullText, t)
    IN IF Len(items) = 0 THEN [ok |-> FALSE]
       ELSE [ok |-> TRUE, items |-> items, totalCost |-> SumTotalCost(items, 1)]

\* parseInvoiceText of part_002 at Date.now() = t; ok = FALSE when it throws
parseInvoiceTextWithFallback(fullText, t) ==
    LET found == AllPatternPushes(fullText, 1, <<>>, t)
        items == IF Len(found) = 0 THEN FallbackItems(fullText, t) ELSE found
    IN IF Len(items) = 0 THEN [ok |-> FALSE]
       ELSE [ok |-> TRUE, items |-> items, totalCost |-> SumTotalCost(items, 1)]

(***************************************************************************)
(* The extraction of the key-value-backed upload function (upload.js): the *)
(* first five "$" amounts of the text, a service by position.              *)
(***************************************************************************)
\* text.match(/\$([0-9,]+\.?[0-9]*)/g)
RECURSIVE dollarMatches(_, _)
dollarMatches(text, i) ==
    IF i > Len(text) THEN <<>>
    ELSE (IF text[i].k = "amt" THEN <<text[i].v>> ELSE <<>>) \o dollarMatches(text, i + 1)

services == <<"EC2", "S3", "RDS", "CloudFront", "Lambda">>

\* dollarMatches.slice(0, 5).forEach((match, index) => ...), index from 0
RECURSIVE AmountItems(_, _, _, _)
AmountItems(matches, index, items, t) ==
    IF index >= Len(matches) \/ index >= Len(services) THEN items
    ELSE LET cost == matches[index + 1]
         IN AmountItems(matches, index + 1,
              IF JsGt(cost, Zero)
              THEN Append(items,
                     [id |-> <<"item", t, index>>,
                      service |-> services[(index % Len(services)) + 1],
                      usage |-> MathRound(JsMul(cost, Int2Num(10))),
                      totalCost |-> cost])
              ELSE items, t)

\* the record pushed when no amount gave one: EC2, usage 100, $50.00
DefaultItem(t) ==
    [id |-> <<"item", t>>, service |-> "EC2", usage |-> Int2Num(100),
     totalCost |-> Dollars(5000)]

\* parseInvoiceText of upload.js at Date.now() = t: it never throws
parseInvoiceTextByAmounts(text, t) ==
    LET found == AmountItems(dollarMatches(text, 1), 0, <<>>, t)
        items == IF Len(found) = 0 THEN <<DefaultItem(t)>> ELSE found
    IN [ok |-> TRUE, items |-> items, totalCost |-> SumTotalCost(items, 1)]

(***************************************************************************)
(* Pool aggregation                                                        *)
(***************************************************************************)
\* totals[key] = usage: the last record of a key replaces the total
AddUsageLast(acc, key, usage) ==
    IF key \in DOMAIN acc.totals
    THEN [acc EXCEPT !.totals[key] = usage]
    ELSE [acc EXCEPT !.totals = @ @@ (key :> usage),
                     !.keys = Append(@, key)]

\* totals[key] = (totals[key] || 0) + usage, keys kept in insertion order
AddUsage(acc, key, usage) ==
    IF key \in DOMAIN acc.totals
    THEN [acc EXCEPT !.totals[key] = JsAdd(OrZero(@), usage)]
    ELSE [acc EXCEPT !.totals = @ @@ (key :> JsAdd(Zero, usage)),
                     !.keys = Append(@, key)]

\* every record of every invoice, in iteration order
RECURSIVE AllItems(_, _)
AllItems(invs, i) ==
    IF i > Len(invs) THEN <<>> ELSE invs[i].items \o AllItems(invs, i + 1)

KeyOf(v, item) == IF v = "sku" THEN item.skuId ELSE item.service

\* the forEach over invoices and their records: usage totals and cost total
RECURSIVE AggregateFrom(_, _, _, _)
AggregateFrom(v, items, i, acc) ==
    IF i > Len(items) THEN acc
    ELSE AggregateFrom(v, items, i + 1,
             [AddUsage(acc, KeyOf(v, items[i]), items[i].usage)
                 EXCEPT !.totalCost = JsAdd(@, items[i].totalCost)])

aggregateUsage(v, invs) ==
    AggregateFrom(v, AllItems(invs, 1), 1,
                  [totals |-> <<>>, keys |-> <<>>, totalCost |-> Zero])

TieredCost(v, key, usage) ==
    IF v = "sku" THEN calculateSKUTieredCost(key, usage) ELSE calculateTieredCost(key, usage)

\* Object.entries(totals).forEach(([key, usage]) => pooled += cost(key, usage))
RECURSIVE PooledFrom(_, _, _, _)
PooledFrom(v, acc, i, pooled) ==
    IF i > Len(acc.keys) THEN pooled
    ELSE PooledFrom(v, acc, i + 1,
                    JsAdd(pooled, TieredCost(v, acc.keys[i], acc.totals[acc.keys[i]])))

(***************************************************************************)
(* GET /api/pool/stats                                                     *)
(***************************************************************************)
\* estimatedSavings without the clamp at 0
poolStatsSKUUnclamped(invs) ==
    LET acc == aggregateUsage("sku", invs)
        totalPooledCost == PooledFrom("sku", acc, 1, Zero)
        estimatedSavings == JsSub(acc.totalCost, totalPooledCost)
    IN [totalCustomers |-> Len(invs),
        totalUsage |-> acc.totals,
        totalCost |-> acc.totalCost,
        pooledCost |-> totalPooledCost,
        estimatedSavings |-> estimatedSavings,
        savingsPercentage |-> IF JsGt(acc.totalCost, Zero)
                              THEN JsMul(JsDiv(estimatedSavings, acc.totalCost), Int2Num(100))
                              ELSE Zero]

poolStatsSKU(invs) ==
    LET acc == aggregateUsage("sku", invs)
        totalPooledCost == PooledFrom("sku", acc, 1, Zero)
        estimatedSavings == MathMax(Zero, JsSub(acc.totalCost, totalPooledCost))
    IN [totalCustomers |-> Len(invs),
        totalUsage |-> acc.totals,
        totalCost |-> acc.totalCost,
        pooledCost |-> totalPooledCost,
        estimatedSavings |-> estimatedSavings,
        savingsPercentage |-> IF JsGt(acc.totalCost, Zero)
                              THEN JsMul(JsDiv(estimatedSavings, acc.totalCost), Int2Num(100))
                              ELSE Zero]

poolStatsSvc(invs) ==
    LET acc == aggregateUsage("svc", invs)
        pooledCost == PooledFrom("svc", acc, 1, Zero)
    IN [totalCustomers |-> Len(invs),
        totalUsage |-> acc.totals,
        totalCost |-> acc.totalCost,
        estimatedSavings |-> MathMax(Zero, JsSub(acc.totalCost, pooledCost))]

(***************************************************************************)
(* GET /api/invoices/savings/:id                                           *)
(***************************************************************************)
\* the last invoice stands in for an id that is not found
FindInvoiceOrLast(invs, id, i) ==
    IF \E k \in i..Len(invs) : invs[k].id = id
    THEN CHOOSE k \in i..Len(invs) :
           invs[k].id = id /\ \A j \in i..(k - 1) : invs[j].id # id
    ELSE Len(invs)

\* invoices.find(inv => inv.id === id): the position of the first match, 0 if none
RECURSIVE FindInvoice(_, _, _)
FindInvoice(invs, id, i) ==
    IF i > Len(invs) THEN 0
    ELSE IF invs[i].id = id THEN i
    ELSE FindInvoice(invs, id, i + 1)

\* poolTotals[key] || 0
TotalOrZero(poolTotals, key) ==
    IF key \in DOMAIN poolTotals THEN OrZero(poolTotals[key]) ELSE Zero

\* what one record adds to customerPooledCost in calculateCustomerSKUPooledCost
SKUPooledShare(sku, poolTotals) ==
    LET totalPoolUsage == TotalOrZero(poolTotals, sku.skuId)
    IN IF JsEq(totalPoolUsage, Zero) \/ JsEq(sku.usage, Zero) THEN Zero
       ELSE LET totalSKUCost == calculateSKUTieredCost(sku.skuId, totalPoolUsage)
                customerShare == JsDiv(sku.usage, totalPoolUsage)
            IN JsMul(totalSKUCost, customerShare)

RECURSIVE SKUPooledFrom(_, _, _)
SKUPooledFrom(customerSKUs, poolTotals, i) ==
    IF i > Len(customerSKUs) THEN Zero
    ELSE JsAdd(SKUPooledShare(customerSKUs[i], poolTotals),
               SKUPooledFrom(customerSKUs, poolTotals, i + 1))

calculateCustomerSKUPooledCost(customerSKUs, poolTotals) ==
    SKUPooledFrom(customerSKUs, poolTotals, 1)

\* the four values returned as computed, without toFixed(2)
customerSavingsSKUUnrounded(invoice, invs) ==
    LET standalone == invoice.totalCost
        poolSKUTotals == aggregateUsage("sku", invs).totals
        customerPooledCost == calculateCustomerSKUPooledCost(invoice.items, poolSKUTotals)
        savings == MathMax(Zero, JsSub(standalone, customerPooledCost))
        percentage == IF JsGt(standalone, Zero)
                      THEN JsMul(JsDiv(savings, standalone), Int2Num(100))
                      ELSE Zero
    IN [standalone |-> standalone,
        pooled |-> customerPooledCost,
        savings |-> savings,
        percentage |-> percentage]

customerSavingsSKU(invoice, invs) ==
    LET standalone == invoice.totalCost
        poolSKUTotals == aggregateUsage("sku", invs).totals
        customerPooledCost == calculateCustomerSKUPooledCost(invoice.items, poolSKUTotals)
        savings == MathMax(Zero, JsSub(standalone, customerPooledCost))
        percentage == IF JsGt(standalone, Zero)
                      THEN JsMul(JsDiv(savings, standalone), Int2Num(100))
                      ELSE Zero
    IN [standalone |-> ToFixed2(standalone),
        pooled |-> ToFixed2(customerPooledCost),
        savings |-> ToFixed2(savings),
        percentage |-> ToFixed2(percentage)]

\* every record is charged the cost of the whole pooled usage of its service
ServicePooledWhole(item, tempUsage) ==
    LET totalServiceUsage == tempUsage[item.service]
    IN IF JsGt(totalServiceUsage, Zero)
       THEN calculateTieredCost(item.service, totalServiceUsage)
       ELSE Zero

\* what one record adds to customerPooledCost in the service-level handler
ServicePooledShare(item, tempUsage) ==
    LET totalServiceUsage == tempUsage[item.service]
    IN IF JsGt(totalServiceUsage, Zero)
       THEN LET customerRatio == JsDiv(item.usage, totalServiceUsage)
                totalServiceCost == calculateTieredCost(item.service, totalServiceUsage)
            IN JsMul(totalServiceCost, customerRatio)
       ELSE Zero

RECURSIVE ServicePooledFrom(_, _, _)
ServicePooledFrom(items, tempUsage, i) ==
    IF i > Len(items) THEN Zero
    ELSE JsAdd(ServicePooledShare(items[i], tempUsage),
               ServicePooledFrom(items, tempUsage, i + 1))

customerSavingsSvc(invoice, invs) ==
    LET standalone == invoice.totalCost
        tempUsage == aggregateUsage("svc", invs).totals
        customerPooledCost == ServicePooledFrom(invoice.items, tempUsage, 1)
        savings == MathMax(Zero, JsSub(standalone, customerPooledCost))
        percentage == IF JsGt(standalone, Zero)
                      THEN JsMul(JsDiv(savings, standalone), Int2Num(100))
                      ELSE Zero
    IN [standalone |-> standalone,
        pooled |-> customerPooledCost,
        savings |-> savings,
        percentage |-> MathMax(Zero, percentage)]

(***************************************************************************)
(* The servers: the invoice collection and its handlers                    *)
(***************************************************************************)
\* the invoice collection holds at most this many invoices
MaxInvoices == 2
\* Date.now() runs from 0 to this
MaxClock == 1

EC2Line(cents) == <<Svc("Amazon Elastic Compute Cloud"), Word, Amt(cents)>>
RDSLine(cents) == <<Svc("Amazon RDS Service"), Amt(cents)>>

\* invoice texts uploaded while the generative-AI call fails
UploadTexts ==
    { <<EC2Line(20000)>>,
      <<RDSLine(2000)>>,
      <<EC2Line(20000), RDSLine(2000)>>,
      <<<<Word, Amt(1200)>>>>,
      <<<<Word, Word>>>> }

GSku(skuId, service, cost, estimatedUsage) ==
    [skuId |-> skuId, service |-> service, cost |-> cost, estimatedUsage |-> estimatedUsage]
GReply(skus, totalCost) == [ok |-> TRUE, skus |-> skus, totalCost |-> totalCost]

\* replies of the generative-AI service
GeminiReplies ==
    { GReply(<<GSku("EC2-t3.medium-us-east-1", "EC2", JNum(Dollars(20000)), JNum(Int2Num(4808)))>>,
             JUndefined),
      GReply(<<GSku(UnknownSKU, "EC2", JNum(Dollars(1000)), JNum(Int2Num(1000)))>>, JUndefined),
      GReply(<<GSku(UnknownSKU, "EC2", JNum(Dollars(1000)), JString)>>, JUndefined),
      GReply(<<GSku("EC2-t3.medium-us-east-1", "EC2", JNum(Dollars(20000)), JString),
               GSku("S3-Standard-us-east-1", "S3", JNum(Dollars(500)), JUndefined)>>,
             JUndefined),
      GReply(<<GSku(UnknownSKU, "EC2", JNum(Dollars(500)), JNum(Int2Num(-100)))>>, JUndefined),
      GReply(<<GSku("EC2-t3.medium-us-east-1", "EC2", JNum(Dollars(20000)), JNum(Int2Num(4808))),
               GSku("RDS-db.t3.micro-us-east-1", "RDS", JUndefined, JNum(Int2Num(10)))>>,
             JNum(Dollars(25000))) }

\* the one-page PDFs uploaded to the service-level server, as rows of tokens
SvcUploads ==
    { <<<<Svc("Amazon Elastic Compute Cloud"), Num(500), Amt(2320)>>>>,
      <<<<Svc("Amazon Elastic Compute Cloud"), Num(1000), Amt(4522)>>>>,
      <<<<Svc("Amazon Simple Email Service"), Amt(300)>>>>,
      <<<<Svc("Amazon Simple Storage Service"), Amt(1150)>>>>,
      <<<<Svc("Amazon RDS Service"), Amt(2000)>>>>,
      << <<Svc("Amazon Elastic Compute Cloud"), Num(500), Amt(2320)>>,
         <<Svc("Amazon Simple Email Service"), Amt(300)>> >>,
      <<<<Word, Word>>>>,
      <<<<Word, Word, Amt(1200)>>>> }

\* what parseAWSInvoiceWithGemini returns for every reply, text and Date.now()
SKUParses ==
    { [reply |-> u[1], text |-> u[2], t |-> t,
       parseResult |-> parseAWSInvoiceWithGemini(u[1], u[2], t)] :
      u \in (GeminiReplies \X {<<>>}) \cup ({GeminiError} \X UploadTexts),
      t \in 0..MaxClock }

\* what parseAWSInvoicePDF returns for every PDF and Date.now()
PDFParses ==
    { [pdf |-> pdf, t |-> t, parseResult |-> parseAWSInvoicePDF(pdf, t)] :
      pdf \in SvcUploads, t \in 0..MaxClock }

\* useState({}): the stats before the first answer
NoStats == <<>>

Init ==
    /\ variant \in {"sku", "svc"}
    /\ invoices = <<>>
    /\ now = 0
    /\ resp = [op |-> "none"]
    /\ query = NoQuery
    /\ result = NoResult
    /\ handlers = <<>>
    /\ ui = [invoices |-> <<>>, stats |-> NoStats, loading |-> TRUE, message |-> "none",
             calls |-> <<>>]

\* the clock advances between requests
Tick ==
    /\ now < MaxClock
    /\ now' = now + 1
    /\ UNCHANGED <<variant, invoices, resp, query, result, handlers, ui>>

\* POST /api/invoices/upload of the SKU-level server
UploadSKU ==
    /\ variant = "sku"
    /\ Len(invoices) < MaxInvoices
    /\ \E upload \in SKUParses :
         /\ upload.t = now
         /\ LET parseResult == upload.parseResult
                invoice == [id |-> now, items |-> parseResult.skus,
                            totalCost |-> parseResult.totalCost]
            IN /\ invoices' = Append(invoices, invoice)
               /\ resp' = [op |-> "upload", status |-> 201, id |-> invoice.id,
                           itemCount |-> Len(invoice.items),
                           totalCost |-> invoice.totalCost]
               /\ query' = [op |-> "upload", reply |-> upload.reply, text |-> upload.text]
    /\ UNCHANGED <<variant, now, result, handlers, ui>>

\* POST /api/invoices/upload of the service-level server
UploadSvc ==
    /\ variant = "svc"
    /\ Len(invoices) < MaxInvoices
    /\ \E upload \in PDFParses :
         /\ upload.t = now
         /\ query' = [op |-> "upload", pdf |-> upload.pdf]
         /\ LET parseResult == upload.parseResult
            IN IF parseResult.ok
               THEN LET invoice == [id |-> now, items |-> parseResult.items,
                                    totalCost |-> parseResult.totalCost]
                    IN /\ invoices' = Append(invoices, invoice)
                       /\ resp' = [op |-> "upload", status |-> 201, id |-> invoice.id,
                                   itemCount |-> Len(invoice.items),
                                   totalCost |-> invoice.totalCost]
               ELSE /\ invoices' = invoices
                    /\ resp' = [op |-> "upload", status |-> 500]
    /\ UNCHANGED <<variant, now, result, handlers, ui>>

\* an upload without file, customer name or PDF type
UploadRejected ==
    /\ resp' = [op |-> "upload", status |-> 400]
    /\ query' = [op |-> "upload"]
    /\ UNCHANGED <<variant, invoices, now, result, handlers, ui>>

\* DELETE /api/invoices/:id
Delete ==
    \E id \in 0..MaxClock :
      LET kept == SelectSeq(invoices, LAMBDA inv : inv.id # id)
      IN /\ invoices' = kept
         /\ resp' = [op |-> "delete", id |-> id,
                     status |-> IF Len(kept) < Len(invoices) THEN 200 ELSE 404]
         /\ query' = [op |-> "delete", id |-> id]
         /\ UNCHANGED <<variant, now, result, handlers, ui>>

\* GET /api/pool/stats
PoolStats ==
    /\ resp' = [op |-> "stats", status |-> 200,
                body |-> IF variant = "sku" THEN poolStatsSKU(invoices)
                         ELSE poolStatsSvc(invoices)]
    /\ query' = [op |-> "stats"]
    /\ UNCHANGED <<variant, invoices, now, result, handlers, ui>>

\* GET /api/invoices/savings/:id
Savings ==
    \E id \in 0..MaxClock :
      LET i == FindInvoice(invoices, id, 1)
      IN /\ resp' = IF i = 0 THEN [op |-> "savings", id |-> id, status |-> 404]
                    ELSE [op |-> "savings", id |-> id, status |-> 200, at |-> i,
                          body |-> IF variant = "sku"
                                   THEN customerSavingsSKU(invoices[i], invoices)
                                   ELSE customerSavingsSvc(invoices[i], invoices)]
         /\ query' = [op |-> "savings", id |-> id]
         /\ UNCHANGED <<variant, invoices, now, result, handlers, ui>>

Next ==
    \/ Tick
    \/ UploadSKU
    \/ UploadSvc
    \/ UploadRejected
    \/ Delete
    \/ PoolStats
    \/ Savings

Spec == Init /\ [][Next]_vars

NextCost ==
    \/ CostOfSKU
    \/ CostOfService
    \/ CostOverTable

SpecCost == Init /\ [][NextCost]_vars

(***************************************************************************)
(* The extraction functions on their own: one text is drawn and parsed,    *)
(* then parsed again, by the same function, as the clock advances.         *)
(***************************************************************************)
\* the same extraction is run at most this many times
MaxRuns == 2

\* pages for the extraction of part_002, as rows of tokens
FallbackUploads ==
    { <<<<Svc("Amazon RDS Service"), Amt(2000)>>>>,
      <<<<Svc("Amazon EC2"), Word, Amt(500)>>, <<Svc("AWS Lambda"), Amt(0), Amt(100)>>>>,
      <<<<Svc("Amazon Elastic Compute Cloud"), Num(500), Amt(2320)>>>>,
      <<<<Word, Word, Amt(1200)>>>>,
      <<<<Word, Amt(0), Amt(1200)>>>>,
      <<<<Word, Word>>>> }

\* file contents for the extraction of upload.js
AmountUploads ==
    { <<<<Svc("Amazon Elastic Compute Cloud"), Num(500), Amt(2320)>>>>,
      <<<<Word, Amt(0), Amt(1200)>>, <<Word, Amt(300)>>>>,
      <<<<Amt(100), Amt(200), Amt(300)>>, <<Amt(400), Amt(500), Amt(600)>>>>,
      <<<<Word, Amt(0)>>>>,
      <<<<Word, Word>>>> }

\* pages for the three strategies of index.js: those uploaded, and one whose
\* only amount is $0.00
ServiceUploads ==
    SvcUploads \cup { <<<<Svc("Amazon Simple Storage Service"), Amt(0)>>>> }

\* texts whose charges lie at and around the limits of the cost bands
BandTexts ==
    {<<EC2Line(limit + d)>> : limit \in {1000, 5000}, d \in (0 - BoundarySpread)..BoundarySpread}
    \cup {<<RDSLine(limit + d), <<Svc("Amazon Simple Email Service"), Amt(0), Amt(150)>>>> :
            limit \in {3000}, d \in (0 - BoundarySpread)..BoundarySpread}
    \cup {<<EC2Line(1), <<Svc("Amazon Elastic Compute Cloud"), Amt(0)>>>>}

\* the extraction named by, on text, at Date.now() = t
ExtractBy(by, text, t) ==
    CASE by = "parseAWSInvoicePDF" -> parseAWSInvoicePDF(text, t)
      [] by = "parseInvoiceTextWithFallback" ->
            parseInvoiceTextWithFallback(FullTextOf(text, 1), t)
      [] by = "parseInvoiceTextByAmounts" -> parseInvoiceTextByAmounts(FullTextOf(text, 1), t)
      [] by = "fallbackSKUParsing" ->
            LET parsed == fallbackSKUParsing(text, t)
            IN [ok |-> TRUE, items |-> parsed.skus, totalCost |-> parsed.totalCost]

\* the first run of an extraction
FirstRun(by, text) ==
    /\ query' = [op |-> "extract", by |-> by, text |-> text]
    /\ result' = [runs |-> <<[t |-> now, out |-> ExtractBy(by, text, now)]>>]

ExtractServices ==
    /\ query = NoQuery
    /\ \E text \in ServiceUploads : FirstRun("parseAWSInvoicePDF", text)
    /\ UNCHANGED <<variant, invoices, now, resp, handlers, ui>>

ExtractWithFallback ==
    /\ query = NoQuery
    /\ \E text \in FallbackUploads : FirstRun("parseInvoiceTextWithFallback", text)
    /\ UNCHANGED <<variant, invoices, now, resp, handlers, ui>>

ExtractByAmounts ==
    /\ query = NoQuery
    /\ \E text \in AmountUploads : FirstRun("parseInvoiceTextByAmounts", text)
    /\ UNCHANGED <<variant, invoices, now, resp, handlers, ui>>

ExtractSKUs ==
    /\ query = NoQuery
    /\ \E text \in UploadTexts \cup BandTexts : FirstRun("fallbackSKUParsing", text)
    /\ UNCHANGED <<variant, invoices, now, resp, handlers, ui>>

\* the same function on the same text, at the current time
ExtractAgain ==
    /\ query.op = "extract"
    /\ Len(result.runs) < MaxRuns
    /\ result' = [runs |-> Append(result.runs,
                                  [t |-> now, out |-> ExtractBy(query.by, query.text, now)])]
    /\ UNCHANGED <<variant, invoices, now, resp, query, handlers, ui>>

NextExtract ==
    \/ Tick
    \/ ExtractServices
    \/ ExtractWithFallback
    \/ ExtractByAmounts
    \/ ExtractSKUs
    \/ ExtractAgain

SpecExtract == Init /\ [][NextExtract]_vars

(***************************************************************************)
(* The upload function over the key-value store (upload.js, store.js): the *)
(* collection is the value of one key, and every invocation reads it,      *)
(* pushes its invoice onto the copy it read, and writes the copy back.     *)
(* Invocations run concurrently and interleave at their awaits; handlers   *)
(* holds the invocations started, invoices the stored value.               *)
(***************************************************************************)
\* at most this many invocations of the upload function
MaxUploads == 2

\* file contents uploaded to the function
KVUploads ==
    { <<<<Svc("Amazon Elastic Compute Cloud"), Num(500), Amt(2320)>>>>,
      <<<<Word, Word>>>> }

\* the handler down to its await on getInvoices: the file is parsed, newInvoice built
UploadParse ==
    /\ Len(handlers) < MaxUploads
    /\ \E text \in KVUploads :
         LET parseResult == parseInvoiceTextByAmounts(FullTextOf(text, 1), now)
             newInvoice == [id |-> now, items |-> parseResult.items,
                            totalCost |-> parseResult.totalCost]
         IN handlers' = Append(handlers, [pc |-> "getInvoices", newInvoice |-> newInvoice,
                                          invoices |-> <<>>])
    /\ UNCHANGED <<variant, invoices, now, resp, query, result, ui>>

\* const invoices = await getInvoices(); invoices.push(newInvoice)
UploadGetInvoices ==
    /\ \E h \in 1..Len(handlers) :
         /\ handlers[h].pc = "getInvoices"
         /\ handlers' = [handlers EXCEPT ![h].pc = "setInvoices",
                                         ![h].invoices = Append(invoices, handlers[h].newInvoice)]
    /\ UNCHANGED <<variant, invoices, now, resp, query, result, ui>>

\* await setInvoices(invoices); res.status(201).json(...)
UploadSetInvoices ==
    /\ \E h \in 1..Len(handlers) :
         /\ handlers[h].pc = "setInvoices"
         /\ invoices' = handlers[h].invoices
         /\ handlers' = [handlers EXCEPT ![h].pc = "done"]
         /\ resp' = [op |-> "upload", status |-> 201, id |-> handlers[h].newInvoice.id,
                     itemCount |-> Len(handlers[h].newInvoice.items),
                     totalCost |-> handlers[h].newInvoice.totalCost]
    /\ UNCHANGED <<variant, now, query, result, ui>>

NextKV ==
    \/ Tick
    \/ UploadParse
    \/ UploadGetInvoices
    \/ UploadSetInvoices

SpecKV == Init /\ [][NextKV]_vars

(***************************************************************************)
(* The pool provider of the UI (src/src/App.jsx) in front of the           *)
(* service-level server.  addInvoice, removeInvoice and fetchData are      *)
(* async functions: ui.calls holds their invocations, each at its await.   *)
(* A request is handled by the server in one step and its response reaches *)
(* the provider in a later one; responses of different requests arrive in  *)
(* any order.                                                              *)
(***************************************************************************)
\* at most this many addInvoice / removeInvoice calls
MaxMutations == 2

\* the files the user uploads through the form
UIUploads ==
    { <<<<Svc("Amazon Elastic Compute Cloud"), Num(500), Amt(2320)>>>>,
      <<<<Word, Word>>>> }

Call(fn, pc, arg) == [fn |-> fn, pc |-> pc, arg |-> arg, data |-> <<>>]

\* fetchData(): setLoading(true), GET /api/invoices sent
FetchDataCall == Call("fetchData", "getInvoices", <<>>)

Mutations == {c \in 1..Len(ui.calls) : ui.calls[c].fn \in {"addInvoice", "removeInvoice"}}

InitUI == Init /\ variant = "svc"

\* useEffect(() => { fetchData(); }, [fetchData]) on mount
Mount ==
    /\ ui.calls = <<>>
    /\ ui' = [ui EXCEPT !.loading = TRUE, !.calls = <<FetchDataCall>>]
    /\ UNCHANGED <<variant, invoices, now, resp, query, result, handlers>>

\* addInvoice(formData) down to its await on the POST
AddInvoice ==
    /\ ui.calls # <<>>
    /\ Cardinality(Mutations) < MaxMutations
    /\ \E pdf \in UIUploads :
         ui' = [ui EXCEPT !.calls = Append(@, Call("addInvoice", "request", pdf))]
    /\ UNCHANGED <<variant, invoices, now, resp, query, result, handlers>>

\* removeInvoice(id) down to its await on the DELETE
RemoveInvoice ==
    /\ ui.calls # <<>>
    /\ Cardinality(Mutations) < MaxMutations
    /\ \E id \in 0..MaxClock :
         ui' = [ui EXCEPT !.calls = Append(@, Call("removeInvoice", "request", id))]
    /\ UNCHANGED <<variant, invoices, now, resp, query, result, handlers>>

\* the server handles the POST /api/invoices/upload of a call
ServeUpload ==
    /\ \E c \in 1..Len(ui.calls) : \E upload \in PDFParses :
         /\ ui.calls[c].fn = "addInvoice"
         /\ ui.calls[c].pc = "request"
         /\ upload.pdf = ui.calls[c].arg
         /\ upload.t = now
         /\ IF upload.parseResult.ok
            THEN /\ invoices' = Append(invoices, [id |-> now, items |-> upload.parseResult.items,
                                                  totalCost |-> upload.parseResult.totalCost])
                 /\ ui' = [ui EXCEPT !.calls[c].pc = "response", !.calls[c].data = 201]
            ELSE /\ invoices' = invoices
                 /\ ui' = [ui EXCEPT !.calls[c].pc = "response", !.calls[c].data = 500]
    /\ UNCHANGED <<variant, now, resp, query, result, handlers>>

\* the server handles the DELETE /api/invoices/:id of a call
ServeDelete ==
    /\ \E c \in 1..Len(ui.calls) :
         LET kept == SelectSeq(invoices, LAMBDA inv : inv.id # ui.calls[c].arg)
         IN /\ ui.calls[c].fn = "removeInvoice"
            /\ ui.calls[c].pc = "request"
            /\ invoices' = kept
            /\ ui' = [ui EXCEPT !.calls[c].pc = "response",
                                !.calls[c].data = IF Len(kept) < Len(invoices) THEN 200 ELSE 404]
    /\ UNCHANGED <<variant, now, resp, query, result, handlers>>

\* addInvoice / removeInvoice after the await: on an ok response the success
\* message and fetchData(), otherwise the error message
MutationResponse ==
    /\ \E c \in 1..Len(ui.calls) :
         /\ ui.calls[c].fn \in {"addInvoice", "removeInvoice"}
         /\ ui.calls[c].pc = "response"
         /\ IF ui.calls[c].data \in {200, 201}
            THEN ui' = [ui EXCEPT !.message = "success", !.loading = TRUE,
                                  !.calls = Append([@ EXCEPT ![c].pc = "done"], FetchDataCall)]
            ELSE ui' = [ui EXCEPT !.message = "error", !.calls[c].pc = "done"]
    /\ UNCHANGED <<variant, invoices, now, resp, query, result, handlers>>

\* the server handles the GET /api/invoices of a fetchData
ServeInvoices ==
    /\ \E c \in 1..Len(ui.calls) :
         /\ ui.calls[c].fn = "fetchData"
         /\ ui.calls[c].pc = "getInvoices"
         /\ ui' = [ui EXCEPT !.calls[c].pc = "invoicesResponse", !.calls[c].data = invoices]
    /\ UNCHANGED <<variant, invoices, now, resp, query, result, handlers>>

\* fetchData after its first await: setInvoices(invoicesData), GET /api/pool/stats sent
FetchInvoicesResponse ==
    /\ \E c \in 1..Len(ui.calls) :
         /\ ui.calls[c].fn = "fetchData"
         /\ ui.calls[c].pc = "invoicesResponse"
         /\ ui' = [ui EXCEPT !.invoices = ui.calls[c].data,
                             !.calls[c].pc = "getStats", !.calls[c].data = <<>>]
    /\ UNCHANGED <<variant, invoices, now, resp, query, result, handlers>>

\* the server handles the GET /api/pool/stats of a fetchData
ServeStats ==
    /\ \E c \in 1..Len(ui.calls) :
         /\ ui.calls[c].fn = "fetchData"
         /\ ui.calls[c].pc = "getStats"
         /\ ui' = [ui EXCEPT !.calls[c].pc = "statsResponse",
                             !.calls[c].data = poolStatsSvc(invoices)]
    /\ UNCHANGED <<variant, invoices, now, resp, query, result, handlers>>

\* fetchData after its second await: setStats(statsData), setLoading(false)
FetchStatsResponse ==
    /\ \E c \in 1..Len(ui.calls) :
         /\ ui.calls[c].fn = "fetchData"
         /\ ui.calls[c].pc = "statsResponse"
         /\ ui' = [ui EXCEPT !.stats = ui.calls[c].data, !.loading = FALSE,
                             !.calls[c].pc = "done", !.calls[c].data = <<>>]
    /\ UNCHANGED <<variant, invoices, now, resp, query, result, handlers>>

NextUI ==
    \/ Mount
    \/ AddInvoice
    \/ RemoveInvoice
    \/ ServeUpload
    \/ ServeDelete
    \/ MutationResponse
    \/ ServeInvoices
    \/ FetchInvoicesResponse
    \/ ServeStats
    \/ FetchStatsResponse

SpecUI == InitUI /\ [][NextUI]_vars

(***************************************************************************)
(* Properties of the cost engines (checked under SpecCost)                 *)
(***************************************************************************)
CostOps == {"calculateSKUTieredCost", "calculateTieredCost"}

\* the table a catalog query runs over; the fallback of an unlisted key
DefaultSKUTiers == <<TInf(0, 100000)>>
QueryTiers ==
    IF query.op = "calculateSKUTieredCost"
    THEN (IF query.key \in DOMAIN SKU_PRICING_TIERS THEN SKU_PRICING_TIERS[query.key]
          ELSE DefaultSKUTiers)
    ELSE IF query.op = "calculateTieredCost"
    THEN (IF query.key \in DOMAIN PRICING_TIERS THEN PRICING_TIERS[query.key]
          ELSE PRICING_TIERS["EC2"])
    ELSE query.tiers

QueryCost(u) ==
    IF query.op = "calculateSKUTieredCost" THEN calculateSKUTieredCost(query.key, u)
    ELSE calculateTieredCost(query.key, u)

\* ascending, starting at 0, each tier starting where the previous one ends,
\* +Infinity closing the last tier and only the last
IsContiguousTable(tiers) ==
    /\ Len(tiers) >= 1
    /\ tiers[1].minUsage = Zero
    /\ tiers[Len(tiers)].maxUsage = Infinity
    /\ \A i \in 1..Len(tiers) : JsLt(tiers[i].minUsage, tiers[i].maxUsage)
    /\ \A i \in 1..(Len(tiers) - 1) :
          /\ IsFiniteNum(tiers[i].maxUsage)
          /\ tiers[i + 1].minUsage = tiers[i].maxUsage

\* the length of [minUsage, maxUsage) intersected with [0, u), for u >= 0
IntervalLength(tier, u) ==
    LET hi == IF JsLt(u, tier.maxUsage) THEN u ELSE tier.maxUsage
    IN IF JsLt(tier.minUsage, hi) THEN JsSub(hi, tier.minUsage) ELSE Zero

RECURSIVE IntervalCost(_, _, _)
IntervalCost(tiers, u, i) ==
    IF i = 0 THEN Zero
    ELSE JsAdd(IntervalCost(tiers, u, i - 1),
               JsMul(tiers[i].pricePerUnit, IntervalLength(tiers[i], u)))

\* C3: over an ascending, contiguous tier table closed by +Infinity and a usage
\* u >= 0, the SKU-level engine charges each tier's price on exactly the part of
\* [0, u) that lies in the tier, and the per-tier usages add up to u.
C3_TierPartition ==
    /\ (query.op = "SKUTieredCostOver" /\ IsContiguousTable(query.tiers)
          /\ JsGe(query.usage, Zero))
       => /\ result.cost = IntervalCost(query.tiers, query.usage, Len(query.tiers))
          /\ result.usageProcessed = query.usage
    /\ (query.op = "calculateSKUTieredCost" /\ query.key \in DOMAIN SKU_PRICING_TIERS
          /\ JsGe(query.usage, Zero))
       => /\ IsContiguousTable(QueryTiers)
          /\ result.cost = IntervalCost(QueryTiers, query.usage, Len(QueryTiers))

\* a three-tier table, usage past the second boundary, every tier charged
C3_Witness ==
    /\ query.op = "SKUTieredCostOver"
    /\ Len(query.tiers) = 3
    /\ JsGt(query.usage, query.tiers[3].minUsage)
    /\ \A i \in 1..3 : JsGt(query.tiers[i].pricePerUnit, Zero)
    /\ JsGt(result.cost, Zero)

\* C4: the service-level engine prices 1000 EC2 hours at
\* 744 x 0.0464 + 256 x 0.0418 = 45.2224.
C4_EC2At1000 ==
    (query.op = "calculateTieredCost" /\ query.key = "EC2" /\ query.usage = Int2Num(1000))
    => result.cost = JsAdd(JsMul(Int2Num(744), Price(464000)),
                           JsMul(Int2Num(256), Price(418000)))

\* C5: the cost of a listed or unlisted key never decreases when the usage grows:
\* cost(key, u1) <= cost(key, u2) for 0 <= u1 <= u2.
C5_Monotone ==
    (query.op \in CostOps /\ JsGe(query.usage, Zero))
    => \A u1 \in UsagesFor(QueryTiers) :
          (JsGe(u1, Zero) /\ JsLe(u1, query.usage)) => JsLe(QueryCost(u1), result.cost)

\* a usage in a later tier costing strictly more than a smaller positive usage
C5_Witness ==
    /\ query.op \in CostOps
    /\ Len(QueryTiers) >= 2
    /\ JsGt(query.usage, QueryTiers[2].minUsage)
    /\ \E u1 \in UsagesFor(QueryTiers) :
          /\ JsGt(u1, Zero)
          /\ JsLt(u1, query.usage)
          /\ JsGt(QueryCost(u1), Zero)
          /\ JsLt(QueryCost(u1), result.cost)

\* C6: the cost of a listed or unlisted key is 0 whenever the usage is <= 0.
C6_ZeroAtOrBelowZero ==
    (query.op \in CostOps /\ JsLe(query.usage, Zero)) => result.cost = Zero

Records ==
    UNION {{<<i, j>> : j \in 1..Len(invoices[i].items)} : i \in 1..Len(invoices)}
RecordAt(r) == invoices[r[1]].items[r[2]]
RecordsOf(key) == {r \in Records : KeyOf(variant, RecordAt(r)) = key}
KeysPresent == {KeyOf(variant, RecordAt(r)) : r \in Records}

RECURSIVE SumUsage(_)
SumUsage(S) ==
    IF S = {} THEN Zero
    ELSE LET r == CHOOSE x \in S : TRUE
         IN JsAdd(RecordAt(r).usage, SumUsage(S \ {r}))

RECURSIVE SumCost(_)
SumCost(S) ==
    IF S = {} THEN Zero
    ELSE LET r == CHOOSE x \in S : TRUE
         IN JsAdd(RecordAt(r).totalCost, SumCost(S \ {r}))

\* the pooled usage of every key as the handlers total it
PoolTotals == aggregateUsage(variant, invoices).totals

\* what customerSavings adds to an invoice's pooled cost for one record
PooledShare(r) ==
    IF variant = "sku" THEN SKUPooledShare(RecordAt(r), PoolTotals)
    ELSE ServicePooledShare(RecordAt(r), PoolTotals)

RECURSIVE SumShares(_)
SumShares(S) ==
    IF S = {} THEN Zero
    ELSE LET r == CHOOSE x \in S : TRUE
         IN JsAdd(PooledShare(r), SumShares(S \ {r}))

\* C1: for every SKU whose pooled usage is positive, the pooled-cost contributions
\* of its records, added up over every invoice of the collection, equal the cost
\* of the SKU at its pooled usage.
C1_SharesAddUpToPooledCost ==
    \A key \in DOMAIN PoolTotals :
        JsGt(PoolTotals[key], Zero)
        => SumShares(RecordsOf(key)) = TieredCost(variant, key, PoolTotals[key])

\* C2: the estimatedSavings that poolStats reports is >= 0.
C2_EstimatedSavingsNonNegative ==
    resp.op = "stats" => JsGe(resp.body.estimatedSavings, Zero)

\* C8: the service-level poolStats reports, for the invoices now in the collection
\* and no others, the usage summed per service, the cost summed over all records,
\* and the number of invoices.
C8_StatsOverCurrentInvoices ==
    (resp.op = "stats" /\ variant = "svc")
    => /\ resp.body.totalCustomers = Len(invoices)
       /\ DOMAIN resp.body.totalUsage = KeysPresent
       /\ \A key \in KeysPresent : resp.body.totalUsage[key] = SumUsage(RecordsOf(key))
       /\ resp.body.totalCost = SumCost(Records)

\* two invoices holding records of one service, totalled by poolStats
C8_Witness ==
    /\ resp.op = "stats"
    /\ variant = "svc"
    /\ Len(invoices) = 2
    /\ \E key \in KeysPresent :
          /\ \E r1, r2 \in RecordsOf(key) : r1[1] # r2[1]
          /\ JsGt(resp.body.totalUsage[key], Zero)
    /\ JsGt(resp.body.totalCost, Zero)

\* Math.max(0, x) as a case distinction
Max0(x) == IF JsGt(x, Zero) THEN x ELSE IF JsLe(x, Zero) THEN Zero ELSE NaN

RECURSIVE SumTieredCost(_, _)
SumTieredCost(totalUsage, keys) ==
    IF keys = {} THEN Zero
    ELSE LET key == CHOOSE k \in keys : TRUE
         IN JsAdd(TieredCost(variant, key, totalUsage[key]),
                  SumTieredCost(totalUsage, keys \ {key}))

\* C9: poolStats reports the pooled cost as the sum of cost(key, totalUsage[key])
\* over the keys of totalUsage, and estimatedSavings as
\* max(0, totalCost - pooled cost).
C9_PooledCostAndSavings ==
    resp.op = "stats"
    => LET body == resp.body
           pooled == SumTieredCost(body.totalUsage, DOMAIN body.totalUsage)
       IN /\ variant = "sku" => body.pooledCost = pooled
          /\ body.estimatedSavings = Max0(JsSub(body.totalCost, pooled))

\* the SKU-level poolStats over two invoices and two SKUs, with something saved
C9_Witness ==
    /\ resp.op = "stats"
    /\ variant = "sku"
    /\ Len(invoices) = 2
    /\ \E k1, k2 \in DOMAIN resp.body.totalUsage :
          k1 # k2 /\ JsGt(resp.body.totalUsage[k1], Zero) /\ JsGt(resp.body.totalUsage[k2], Zero)
    /\ JsGt(resp.body.pooledCost, Zero)
    /\ JsGt(resp.body.estimatedSavings, Zero)

\* savings / standalone x 100 when standalone > 0 and 0 otherwise
PercentageOf(savings, standalone) ==
    IF JsGt(standalone, Zero) THEN JsMul(JsDiv(savings, standalone), Int2Num(100)) ELSE Zero

IsTwoDecimalsOf(r, x) ==
    IF ~IsFiniteNum(x) THEN r = x
    ELSE /\ IsFiniteNum(r)
         /\ 100 % r.d = 0
         /\ JsLe(JsSub(r, x), Rat(1, 200))
         /\ JsLe(JsSub(x, r), Rat(1, 200))

\* the sum of the shares of an invoice's records, before any rounding
InvoicePooled(i) == SumShares({r \in Records : r[1] = i})

ZeroPoolRecords == {r \in Records : r[1] = resp.at /\ PoolTotals[KeyOf(variant, RecordAt(r))] = Zero}

\* C11: when the pooled usage of a key is zero, every record of that key adds
\* exactly 0 to the customer's pooled cost, and customerSavings returns four
\* numbers (no NaN, no infinity).
C11_ZeroPoolUsage ==
    (resp.op = "savings" /\ resp.status = 200 /\ ZeroPoolRecords # {})
    => /\ \A r \in ZeroPoolRecords : PooledShare(r) = Zero
       /\ IsFiniteNum(resp.body.standalone)
       /\ IsFiniteNum(resp.body.pooled)
       /\ IsFiniteNum(resp.body.savings)
       /\ IsFiniteNum(resp.body.percentage)

\* a usage quantity as the pool is to count it: a number >= 0, anything else 0
CountedUsage(u) == IF JsGe(u, Zero) THEN u ELSE Zero

RECURSIVE SumCountedUsage(_)
SumCountedUsage(S) ==
    IF S = {} THEN Zero
    ELSE LET r == CHOOSE x \in S : TRUE
         IN JsAdd(CountedUsage(RecordAt(r).usage), SumCountedUsage(S \ {r}))

\* C12: a record whose usage is negative or not a number counts as usage zero:
\* poolStats totals every key over the other records only, and customerSavings
\* gives such a record a pooled share of 0.
C12_InvalidUsageCountsAsZero ==
    /\ resp.op = "stats"
       => \A key \in KeysPresent :
             /\ key \in DOMAIN resp.body.totalUsage
             /\ resp.body.totalUsage[key] = SumCountedUsage(RecordsOf(key))
    /\ (resp.op = "savings" /\ resp.status = 200)
       => \A r \in Records :
             (r[1] = resp.at /\ ~JsGe(RecordAt(r).usage, Zero)) => PooledShare(r) = Zero

\* the text carries neither a "$" amount nor a service name
IsJunkText(text) ==
    \A l \in 1..Len(text) : \A i \in 1..Len(text[l]) : text[l][i].k \notin {"amt", "svc"}

\* the request just handled is an upload whose text the deterministic
\* extraction had to read and which is junk
JunkUpload(q) ==
    /\ q.op = "upload"
    /\ \/ "pdf" \in DOMAIN q /\ IsJunkText(q.pdf)
       \/ "text" \in DOMAIN q /\ ~q.reply.ok /\ IsJunkText(q.text)

\* C13: an upload whose text has no currency amount and no recognized service
\* name is rejected (no 201) and leaves the invoice collection as it was.
C13_JunkUploadRejected ==
    [][JunkUpload(query') => (resp'.status # 201 /\ invoices' = invoices)]_vars

\* the service-level server rejects a junk upload and keeps its collection
C13_Witness ==
    /\ variant = "svc"
    /\ JunkUpload(query)
    /\ resp.op = "upload"
    /\ resp.status = 500
    /\ Len(invoices) = 1

(***************************************************************************)
(* Properties of the extraction functions (checked under SpecExtract)      *)
(***************************************************************************)
\* the runs made so far of the extraction drawn
Runs == IF query.op = "extract" THEN {result.runs[r] : r \in 1..Len(result.runs)} ELSE {}

\* the "$" amounts of a text, and the names its service tokens carry
AmountsIn(text) ==
    UNION {{text[l][i].v : i \in {k \in 1..Len(text[l]) : text[l][k].k = "amt"}} :
           l \in 1..Len(text)}
NamesIn(text) ==
    UNION {{text[l][i].name : i \in {k \in 1..Len(text[l]) : text[l][k].k = "svc"}} :
           l \in 1..Len(text)}

\* the service names an extraction knows
NamesKnownTo(by) ==
    IF by = "parseInvoiceTextWithFallback"
    THEN UNION {serviceTypePatterns[p].names : p \in DOMAIN serviceTypePatterns}
    ELSE {AWS_SERVICE_MAPPINGS[m].name : m \in DOMAIN AWS_SERVICE_MAPPINGS}

\* C14: a text with at least one currency amount and no recognized service
\* name gives exactly one record, which carries an amount of the text, and
\* never a failure (the two service-level extractions).
C14_AmountOnlyGivesOneRecord ==
    (/\ query.op = "extract"
     /\ query.by \in {"parseAWSInvoicePDF", "parseInvoiceTextWithFallback"}
     /\ AmountsIn(query.text) # {}
     /\ NamesIn(query.text) \cap NamesKnownTo(query.by) = {})
    => \A run \in Runs :
          /\ run.out.ok
          /\ Len(run.out.items) = 1
          /\ run.out.items[1].totalCost \in AmountsIn(query.text)

\* the fallback of part_002 gives its one record for a text with an amount only
C14_Witness ==
    /\ query.op = "extract"
    /\ query.by = "parseInvoiceTextWithFallback"
    /\ NamesIn(query.text) = {}
    /\ \E run \in Runs : run.out.ok /\ Len(run.out.items) = 1

\* two records of the list carry the same (service, cost) pair
HasDuplicatePair(items) ==
    \E i, j \in 1..Len(items) :
        i # j /\ items[i].service = items[j].service /\ items[i].totalCost = items[j].totalCost

\* C15: the list the three-strategy extraction returns never holds two records
\* with the same (service, cost) pair.
C15_NoDuplicatePairs ==
    (query.op = "extract" /\ query.by = "parseAWSInvoicePDF")
    => \A run \in Runs : run.out.ok => ~HasDuplicatePair(run.out.items)

\* two strategies found the same (service, cost) pair and one record was returned
C15_Witness ==
    /\ query.op = "extract"
    /\ query.by = "parseAWSInvoicePDF"
    /\ \E run \in Runs :
         LET serviceCharges == extractServiceCharges(FullTextOf(query.text, 1), run.t)
             lineItems == parseLineByLine(FullTextOf(query.text, 1), run.t)
         IN /\ run.out.ok
            /\ \E i \in 1..Len(serviceCharges) : \E j \in 1..Len(lineItems) :
                 /\ serviceCharges[i].service = lineItems[j].service
                 /\ serviceCharges[i].totalCost = lineItems[j].totalCost
                 /\ Cardinality({k \in 1..Len(run.out.items) :
                        /\ run.out.items[k].service = lineItems[j].service
                        /\ run.out.items[k].totalCost = lineItems[j].totalCost}) = 1

\* C16: every run of an extraction on the same text returns the same list,
\* record ids included, whatever the time of the run.
C16_RunsAgree ==
    \A first, second \in Runs : first.out = second.out

\* the same text parsed at two different times
C16_Witness ==
    \E first, second \in Runs : first.t # second.t /\ first.out.ok /\ second.out.ok

\* C17: every invoice of the collection has totalCost equal to the sum of the
\* costs of its records.
C17_TotalIsSumOfRecords ==
    \A i \in 1..Len(invoices) : invoices[i].totalCost = SumTotalCost(invoices[i].items, 1)

\* an invoice with two records whose total is their sum
C17_Witness ==
    \E i \in 1..Len(invoices) :
        /\ Len(invoices[i].items) = 2
        /\ invoices[i].totalCost = SumTotalCost(invoices[i].items, 1)
        /\ JsGt(invoices[i].totalCost, Zero)

\* C19: with exactly one invoice in the collection, customerSavings reports as
\* pooled the sum over the invoice's keys of cost(key, the invoice's own usage of
\* the key), which is the pooled cost total of poolStats.
C19_SingleInvoicePaysPooledCost ==
    (resp.op = "savings" /\ resp.status = 200 /\ Len(invoices) = 1)
    => /\ resp.body.pooled = SumTieredCost(PoolTotals, KeysPresent)
       /\ variant = "sku" => resp.body.pooled = poolStatsSKU(invoices).pooledCost

\* the only invoice holds two records of one key and its pooled cost is reported
C19_Witness ==
    /\ resp.op = "savings"
    /\ resp.status = 200
    /\ Len(invoices) = 1
    /\ JsGt(resp.body.pooled, Zero)
    /\ \E r1, r2 \in Records :
         r1 # r2 /\ KeyOf(variant, RecordAt(r1)) = KeyOf(variant, RecordAt(r2))

\* the tier table of the catalog that the last cost query read
CatalogTableOf(q) ==
    IF q.op = "calculateSKUTieredCost" /\ q.key \in DOMAIN SKU_PRICING_TIERS
    THEN SKU_PRICING_TIERS[q.key]
    ELSE IF q.op = "calculateTieredCost" /\ q.key \in DOMAIN PRICING_TIERS
    THEN PRICING_TIERS[q.key]
    ELSE <<>>

\* C18: every tier table of the pricing catalogs that a cost is computed over
\* is ascending by minUsage, starts at 0, is contiguous (each minUsage is the
\* previous maxUsage) and has maxUsage = +Infinity in its last tier only.
C18_TablesContiguous ==
    CatalogTableOf(query) # <<>> => IsContiguousTable(CatalogTableOf(query))

\* a cost was computed over a contiguous table of the SKU-level catalog
C18_Witness ==
    /\ query.op = "calculateSKUTieredCost"
    /\ query.key \in DOMAIN SKU_PRICING_TIERS
    /\ IsContiguousTable(SKU_PRICING_TIERS[query.key])
    /\ JsGt(result.cost, Zero)

\* the deleted invoices gone, the others as they were and in their order
WithoutId(invs, id) == SelectSeq(invs, LAMBDA inv : inv.id # id)

\* C20: a stored invoice is never modified: a step that handles a delete
\* removes the invoices with the given id and nothing else, and every other
\* step keeps every stored invoice, unchanged and in place.
C20_StoredInvoicesKept ==
    [][IF query'.op = "delete"
       THEN invoices' = WithoutId(invoices, query'.id)
       ELSE /\ Len(invoices') >= Len(invoices)
            /\ SubSeq(invoices', 1, Len(invoices)) = invoices]_vars

\* two invocations of the upload function have finished and both invoices are stored
C20_Witness ==
    /\ Len(handlers) = 2
    /\ \A h \in 1..Len(handlers) : handlers[h].pc = "done"
    /\ Len(invoices) = 2

\* the records the six patterns of part_002 give for the text drawn, at time t
PatternRecords(t) == AllPatternPushes(FullTextOf(query.text, 1), 1, <<>>, t)

\* a generic fallback record: its id carries no position
IsGenericRecord(item) == Len(item.id) = 2

\* C21: the fallback of part_002 adds its generic record only when the patterns
\* gave no record: whenever a service-specific record was extracted, the output
\* is the pattern records and holds no generic record.
C21_FallbackOnlyWhenEmpty ==
    (query.op = "extract" /\ query.by = "parseInvoiceTextWithFallback")
    => \A run \in Runs :
          Len(PatternRecords(run.t)) > 0
          => /\ run.out.ok
             /\ run.out.items = PatternRecords(run.t)
             /\ \A i \in 1..Len(run.out.items) : ~IsGenericRecord(run.out.items[i])

\* a text with a recognized service and a further amount: the amount the
\* fallback would take is there, and no generic record is returned
C21_Witness ==
    /\ query.op = "extract"
    /\ query.by = "parseInvoiceTextWithFallback"
    /\ \E run \in Runs :
         /\ Len(PatternRecords(run.t)) > 0
         /\ Len(FallbackItems(FullTextOf(query.text, 1), run.t)) > 0
         /\ Cardinality(AmountsIn(query.text)) > 1

\* the three strategies of index.js on the text drawn, at time t, and their merge
TaggedRecords(t) == extractServiceCharges(FullTextOf(query.text, 1), t)
LineRecords(t) == parseLineByLine(FullTextOf(query.text, 1), t)
PositionRecords(t) == IF Len(query.text) > 0 THEN parseByPosition(query.text, t) ELSE <<>>
MergedRecords(t) == TaggedRecords(t) \o LineRecords(t) \o PositionRecords(t)

PairOf(item) == <<item.service, item.totalCost>>

\* the positions of a list that hold the first record of their (service, cost) pair
FirstPositions(items) ==
    {i \in 1..Len(items) : \A j \in 1..(i - 1) : PairOf(items[j]) # PairOf(items[i])}

\* the n-th smallest element of a set of positions
NthOf(positions, n) ==
    CHOOSE k \in positions : Cardinality({j \in positions : j < k}) = n - 1

\* C22: deduplication returns a subsequence of its input in the original order:
\* of every (service, cost) pair it keeps the first record and drops the later
\* ones, and it drops nothing else.
C22_DedupKeepsFirstInOrder ==
    (query.op = "extract" /\ query.by = "parseAWSInvoicePDF")
    => \A run \in Runs :
          LET input == MergedRecords(run.t)
              output == removeDuplicateItems(input)
              kept == FirstPositions(input)
          IN /\ Len(output) = Cardinality(kept)
             /\ \A n \in 1..Len(output) : output[n] = input[NthOf(kept, n)]
             /\ run.out.ok => run.out.items = output

\* the input holds a later duplicate between records that are kept
C22_Witness ==
    /\ query.op = "extract"
    /\ query.by = "parseAWSInvoicePDF"
    /\ \E run \in Runs :
         LET input == MergedRecords(run.t)
             kept == FirstPositions(input)
         IN \E i, j \in kept : \E d \in (1..Len(input)) \ kept : i < d /\ d < j

\* the strategy (1 tagged, 2 line scan, 3 position) that first finds a pair
RankOf(pair, t) ==
    IF \E i \in 1..Len(TaggedRecords(t)) : PairOf(TaggedRecords(t)[i]) = pair THEN 1
    ELSE IF \E i \in 1..Len(LineRecords(t)) : PairOf(LineRecords(t)[i]) = pair THEN 2
    ELSE 3

\* the first record of a list with the pair
FirstWith(items, pair) ==
    items[CHOOSE i \in 1..Len(items) :
            /\ PairOf(items[i]) = pair
            /\ \A j \in 1..(i - 1) : PairOf(items[j]) # pair]

\* C23: the returned list holds the tagged-service records first, then those of
\* the line scan, then those of the position grouping, and of a duplicated
\* (service, cost) pair the record of the earliest strategy is the one returned.
C23_EarliestStrategySurvives ==
    (query.op = "extract" /\ query.by = "parseAWSInvoicePDF")
    => \A run \in Runs :
          run.out.ok
          => LET items == run.out.items
                 strategies == <<TaggedRecords(run.t), LineRecords(run.t), PositionRecords(run.t)>>
             IN /\ \A n \in 1..Len(items) :
                      items[n] = FirstWith(strategies[RankOf(PairOf(items[n]), run.t)],
                                           PairOf(items[n]))
                /\ \A m, n \in 1..Len(items) :
                      m < n => RankOf(PairOf(items[m]), run.t) <= RankOf(PairOf(items[n]), run.t)
                /\ \A r \in 1..3 : \A i \in 1..Len(strategies[r]) :
                      \E n \in 1..Len(items) : PairOf(items[n]) = PairOf(strategies[r][i])

\* two strategies found the same pair with different usages, and the usage
\* returned is the one of the tagged-service strategy
C23_Witness ==
    /\ query.op = "extract"
    /\ query.by = "parseAWSInvoicePDF"
    /\ \E run \in Runs :
         /\ run.out.ok
         /\ \E i \in 1..Len(TaggedRecords(run.t)) : \E j \in 1..Len(LineRecords(run.t)) :
              /\ PairOf(TaggedRecords(run.t)[i]) = PairOf(LineRecords(run.t)[j])
              /\ TaggedRecords(run.t)[i].usage # LineRecords(run.t)[j].usage
              /\ \E n \in 1..Len(run.out.items) : run.out.items[n] = TaggedRecords(run.t)[i]

\* the charges a text holds for a service name: on a line, the first amount
\* after the name
ChargesOf(text, name) ==
    UNION {{text[l][k].v :
              k \in {k \in 1..Len(text[l]) :
                       /\ text[l][k].k = "amt"
                       /\ \E i \in 1..(k - 1) :
                            /\ text[l][i].k = "svc"
                            /\ text[l][i].name = name
                            /\ \A j \in (i + 1)..(k - 1) : text[l][j].k # "amt"}} :
           l \in 1..Len(text)}

\* a dollar value in cents
CentsOf(cost) == (cost.n * 100) \div cost.d

\* the SKU the cost bands give a charge of a service
BandSKU(service, cost) ==
    IF service = "EC2"
    THEN (IF CentsOf(cost) < 1000 THEN "EC2-t3.micro-us-east-1"
          ELSE IF CentsOf(cost) < 5000 THEN "EC2-t3.small-us-east-1"
          ELSE "EC2-t3.medium-us-east-1")
    ELSE (IF CentsOf(cost) < 3000 THEN "RDS-db.t3.micro-us-east-1"
          ELSE "RDS-db.t3.small-us-east-1")

\* C24: the deterministic extraction gives every positive EC2 charge the SKU
\* t3.micro below 10 dollars, t3.small from 10 to below 50, t3.medium from 50,
\* and every positive RDS charge db.t3.micro below 30 dollars and db.t3.small
\* otherwise; the SKU of every record is a key of the pricing catalog.
C24_CostBandsChooseCatalogSKU ==
    (query.op = "extract" /\ query.by = "fallbackSKUParsing")
    => \A run \in Runs :
          LET items == run.out.items
          IN /\ \A i \in 1..Len(items) :
                  /\ items[i].skuId \in DOMAIN SKU_PRICING_TIERS
                  /\ items[i].service \in {"EC2", "RDS"}
                     => items[i].skuId = BandSKU(items[i].service, items[i].totalCost)
             /\ \A cost \in ChargesOf(query.text, "Amazon Elastic Compute Cloud") :
                  cost.n > 0 => \E i \in 1..Len(items) :
                                   /\ items[i].service = "EC2"
                                   /\ items[i].totalCost = cost
             /\ \A cost \in ChargesOf(query.text, "Amazon RDS Service") :
                  cost.n > 0 => \E i \in 1..Len(items) :
                                   /\ items[i].service = "RDS"
                                   /\ items[i].totalCost = cost

\* a charge that lies exactly on a band limit was extracted
C24_Witness ==
    /\ query.op = "extract"
    /\ query.by = "fallbackSKUParsing"
    /\ \E run \in Runs : \E i \in 1..Len(run.out.items) :
         \/ /\ run.out.items[i].service = "EC2"
            /\ CentsOf(run.out.items[i].totalCost) \in {1000, 5000}
         \/ /\ run.out.items[i].service = "RDS"
            /\ CentsOf(run.out.items[i].totalCost) = 3000

\* no invocation of the upload function is between its awaits
AllUploadsFinished == \A h \in 1..Len(handlers) : handlers[h].pc = "done"

\* the stored records that are the invoice of an invocation
StoredCopies(h) == {i \in 1..Len(invoices) : invoices[i] = handlers[h].newInvoice}

\* C25: once every in-flight upload has finished, every upload that was
\* answered 201 is in the stored collection, whatever the interleaving of
\* their reads and writes of the store (no lost update).
C25_NoLostUpload ==
    AllUploadsFinished
    => /\ \A h \in 1..Len(handlers) : StoredCopies(h) # {}
       /\ Len(invoices) = Len(handlers)

\* two uploads were answered 201 and the store holds one invoice
C25_Witness ==
    /\ AllUploadsFinished
    /\ Len(handlers) > 1
    /\ Len(invoices) < Len(handlers)

\* C26: the invoices of the collection have pairwise distinct ids, also when
\* two uploads arrive in the same millisecond, so that a delete removes exactly
\* one invoice and a savings request addresses a unique one.
C26_InvoiceIdsDistinct ==
    \A i, j \in 1..Len(invoices) : i # j => invoices[i].id # invoices[j].id

\* two uploads in different milliseconds: their ids differ
C26_Witness ==
    /\ Len(invoices) > 1
    /\ \E i, j \in 1..Len(invoices) : invoices[i].id # invoices[j].id

\* a step that answers a request
AnswersRequest == query' # query \/ resp' # resp

\* C27: a delete or a savings request for an id that no invoice of the
\* collection has is answered not-found and leaves the collection as it was.
C27_UnknownIdNotFound ==
    [][(/\ AnswersRequest
        /\ query'.op \in {"delete", "savings"}
        /\ \A i \in 1..Len(invoices) : invoices[i].id # query'.id)
       => /\ resp'.op = query'.op
          /\ resp'.status = 404
          /\ invoices' = invoices]_vars

\* an unknown id was answered not-found while the collection holds an invoice
C27_Witness ==
    /\ resp.op \in {"delete", "savings"}
    /\ resp.status = 404
    /\ Len(invoices) > 0
    /\ \A i \in 1..Len(invoices) : invoices[i].id # resp.id

\* a savings request was answered with the four numbers
SavingsAnswered == resp.op = "savings" /\ resp.status = 200

\* C28: customerSavings returns 0 <= savings <= standalone and
\* 0 <= percentage <= 100.
C28_SavingsWithinBounds ==
    SavingsAnswered
    => /\ JsLe(Zero, resp.body.savings)
       /\ JsLe(resp.body.savings, resp.body.standalone)
       /\ JsLe(Zero, resp.body.percentage)
       /\ JsLe(resp.body.percentage, Int2Num(100))

\* a customer of a pool of two invoices saves a part of the standalone cost
C28_Witness ==
    /\ SavingsAnswered
    /\ Len(invoices) > 1
    /\ JsLt(Zero, resp.body.savings)
    /\ JsLt(resp.body.savings, resp.body.standalone)

\* the savings of the invoices from position i on, each as customerSavings
\* of the service-level server returns it
RECURSIVE SumOfSavings(_)
SumOfSavings(i) ==
    IF i > Len(invoices) THEN Zero
    ELSE JsAdd(customerSavingsSvc(invoices[i], invoices).savings, SumOfSavings(i + 1))

\* the totalCost of every invoice is the sum of the costs of its records
TotalsAreSums ==
    \A i \in 1..Len(invoices) : invoices[i].totalCost = SumTotalCost(invoices[i].items, 1)

\* C29: for a collection in which the totalCost of every invoice is the sum of
\* its record costs, the savings of customerSavings summed over all invoices
\* are at least the estimatedSavings of poolStats.
C29_CustomerSavingsCoverPoolSavings ==
    (variant = "svc" /\ resp.op = "stats" /\ TotalsAreSums)
    => JsGe(SumOfSavings(1), resp.body.estimatedSavings)

\* a pool of two invoices in which the clamping of one invoice raises the sum
\* above the savings of the pool
C29_Witness ==
    /\ variant = "svc"
    /\ resp.op = "stats"
    /\ TotalsAreSums
    /\ Len(invoices) > 1
    /\ JsGt(SumOfSavings(1), resp.body.estimatedSavings)

\* the provider is mounted and none of its calls is at an await
UIQuiescent ==
    /\ ui.calls # <<>>
    /\ \A c \in 1..Len(ui.calls) : ui.calls[c].pc = "done"

\* C30: once every add and remove request and every fetchData refresh has
\* completed, the provider displays the invoice list and the pool stats of
\* the server's final collection, in whatever order the responses of
\* overlapping fetchData calls arrived.
C30_DisplayIsFinalCollection ==
    UIQuiescent
    => /\ ui.invoices = invoices
       /\ ui.stats = poolStatsSvc(invoices)

\* after an upload and its refresh the provider displays the uploaded invoice
C30_Witness ==
    /\ UIQuiescent
    /\ Len(invoices) > 0
    /\ ui.invoices = invoices
    /\ ui.stats = poolStatsSvc(invoices)

====
